---------------------------- MODULE Spec2Model ----------------------------
(***************************************************************************)
(* A model of lib/skinner.js: the bucketizers (Linear, LogLinear,          *)
(* PowerOfTwo), the sparse distribution kept by bucketize(), and the       *)
(* Aggregator (aggregate / result / stats).                                *)
(*                                                                         *)
(* Numbers.  A JavaScript number that is finite is represented by its      *)
(* numerator over the fixed denominator Denom, so that values strictly     *)
(* between two integers exist in the model: the number x is the integer    *)
(* x * Denom.  Bucket ordinals and counts are plain integers.              *)
(***************************************************************************)
EXTENDS Integers, Sequences, FiniteSets, TLC

\* ------------------------------------------------------------------ bounds
\* Finite numbers are multiples of 1/Denom.
Denom == 2
\* Largest numerator handed to bucketize (values 0 .. MaxNum/Denom).
MaxNum == 8
\* Number of bucketize calls on one distribution.
MaxObs == 3
\* Largest ordinal asked of bucketMin in the inverse checks.
MaxOrd == 20
\* Largest ordinal asked of bucketMin for the log-linear bucketizer with
\* base 10 and 20 buckets (four orders of magnitude).
MaxLogLinearOrd == 63
\* The cardinalities handed to bucketize.
Cards == {1, 3}
\* Largest integer whose decimal numeral the model knows as a property key.
MaxKey == 8
\* Number of aggregate calls on an Aggregator fed host records.
MaxRecords == 3
\* Number of data points written to the Aggregator used as a stream.
MaxWrites == 3
\* Largest base and nbuckets handed to makeLogLinearBucketizer.
MaxBase == 10
MaxBuckets == 40
\* Largest exponent in the search for a power of base that nbuckets
\* divides: nbuckets < 2^MaxPower, so no larger exponent can be needed.
MaxPower == 6

VARIABLES
    bk,         \* the bucketizer in use (skLinearBucketizer, ...)
    rv,         \* the distribution "rv" bucketize() updates in place
    obs,        \* history: the bucketize calls made, with their outcome
    q_bidx,     \* inverse check: the ordinal handed to bucketMin
    q_min,      \* inverse check: what bucketMin returned
    q_back,     \* inverse check: _valueToBucketIndex(q_min), -1 before
    sa_decomps,     \* Aggregator: the decomposition list
    sa_bucketizers, \* Aggregator: field name -> bucketizer
    sa_value,       \* Aggregator: the tree (a number with no decomposition)
    sa_nrecords,    \* Aggregator: stats().ninputs
    sa_nnonnumeric, \* Aggregator: stats().nerr_nonnumeric
    sa_nparsed,     \* Aggregator: stats().nparsed
    datapt,     \* the data point of the last aggregate call
    out,        \* how the last aggregate call ended
    nemitted,   \* number of invalid_object events emitted so far
    event,      \* the arguments of the last invalid_object event
    handed,     \* history: values the last call handed to a bucketizer
    shadow,     \* history: the tree of a second Aggregator that is given
                \* the same calls except those that ended "rejected"
    total,      \* history: sum of datapt.value over the calls that returned
    ncalls,     \* history: number of aggregate calls made
    inorder,    \* history: the calls made were the first ncalls city
                \* records, in the order of the list
    log,        \* history: per aggregate call, the keys its descent
                \* walked, datapt.value and how the call ended
    ws_buffer,  \* stream: the chunks written and not yet transformed
    ws_writing, \* stream: a _transform callback is outstanding
    ws_ending,  \* stream: end() has been called
    rs_buffer,  \* stream: the items pushed and not yet read
    rs_flowing, \* stream: a 'data' listener is attached
    items,      \* history: the items the 'data' listener received
    written,    \* history: the data points written, in order
    ingested,   \* history: the data points _transform has aggregated
    nflush,     \* history: number of _flush calls
    atend,      \* history: <<result()>> as called right after end()
    batchrv,    \* history: <<rows>> returned by skAggregate(written, ..)
    sa_aspoints, \* Aggregator: args.resultsAsPoints was given
    refed,      \* history: <<result()>> of a fresh Aggregator that was
                \* given the items the listener received
    flush_out,  \* stream: how _flush ended ("return" or the assertion that
                \* threw), "none" before it is called
    ctor_args,  \* constructor: the "args" the Aggregator was built from
    ctor_out,   \* constructor: "ok", or the assertion that threw
    mk_base,    \* makeLogLinearBucketizer: the base of the last call
    mk_nbuckets, \* makeLogLinearBucketizer: the nbuckets of the last call
    mk_out,     \* makeLogLinearBucketizer: "ok", the assertion that
                \* threw, or "hang"
    script,     \* expansion: the bucketize calls the program makes, in order
    expanded    \* expansion: once ordinalToBounds(bk, rv) was called,
                \* <<what it returned, with the distribution given>>

distVars == <<bk, rv, obs>>
qVars == <<q_bidx, q_min, q_back>>
aggVars ==
    <<sa_decomps, sa_bucketizers, sa_value, sa_nrecords, sa_nnonnumeric,
      sa_nparsed, datapt, out, nemitted, event, handed, shadow, total,
      ncalls, inorder, log>>
streamVars ==
    <<ws_buffer, ws_writing, ws_ending, rs_buffer, rs_flowing, items,
      written, ingested, nflush, atend, batchrv, sa_aspoints, refed,
      flush_out>>
ctorVars == <<ctor_args, ctor_out, mk_base, mk_nbuckets, mk_out>>
expandVars == <<script, expanded>>
vars == <<distVars, qVars, aggVars, streamVars, ctorVars, expandVars>>

Min(a, b) == IF a <= b THEN a ELSE b

RECURSIVE Pow(_, _)
Pow(b, e) == IF e = 0 THEN 1 ELSE b * Pow(b, e - 1)

\* ------------------------------------------------------------- bucketizers
\* A bucketizer object: its class and the fields its constructor sets.
\* lb_step is a number (a numerator over Denom); lb_base and lb_nbuckets
\* are integers.
skLinearBucketizer(step) ==
    [kind |-> "linear", lb_step |-> step, lb_base |-> 0, lb_nbuckets |-> 0]

skLogLinearBucketizer(base, nbuckets) ==
    [kind |-> "loglinear", lb_step |-> 0, lb_base |-> base,
     lb_nbuckets |-> nbuckets]

skP2Bucketizer ==
    [kind |-> "p2", lb_step |-> 0, lb_base |-> 0, lb_nbuckets |-> 0]

\* skLinearBucketizer.prototype._bucketIndexToMin: lb_step * bidx.
Linear_bucketIndexToMin(b, bidx) == b.lb_step * bidx

\* skLinearBucketizer.prototype._valueToBucketIndex: floor(value / lb_step).
Linear_valueToBucketIndex(b, value) == value \div b.lb_step

\* skLogLinearBucketizer.prototype._valueToBucketIndex, the while loop and
\* the three statements after it.  prevorder and maxorder are integers;
\* value is a numerator over Denom.
RECURSIVE LogLinear_valueLoop(_, _, _, _, _)
LogLinear_valueLoop(b, value, totbuckets, prevorder, maxorder) ==
    IF value >= maxorder * Denom
    THEN LET orderbuckets == Min(maxorder, b.lb_nbuckets)
             uniquebuckets == IF prevorder = 0
                              THEN orderbuckets
                              ELSE orderbuckets - (orderbuckets \div b.lb_base)
         IN  LogLinear_valueLoop(b, value, totbuckets + uniquebuckets,
                                 maxorder, maxorder * b.lb_base)
    ELSE LET orderbuckets == Min(maxorder, b.lb_nbuckets)
             stepsize == maxorder \div orderbuckets
         IN  totbuckets + ((value - prevorder * Denom) \div (stepsize * Denom))

LogLinear_valueToBucketIndex(b, value) ==
    LogLinear_valueLoop(b, value, 0, 0, b.lb_base)

\* Mutant of LogLinear_minLoop: every order of magnitude counts all of its
\* buckets (the buckets covered by the order before are not subtracted).
RECURSIVE LogLinear_minLoop_full(_, _, _, _, _)
LogLinear_minLoop_full(b, bidx, i, minorder, maxorder) ==
    LET orderbuckets == Min(maxorder, b.lb_nbuckets)
        bucketsize == maxorder \div orderbuckets
    IN  IF i + orderbuckets > bidx
        THEN (minorder + (bidx - i) * bucketsize) * Denom
        ELSE LogLinear_minLoop_full(b, bidx, i + orderbuckets, maxorder,
                                    maxorder * b.lb_base)

\* skLogLinearBucketizer.prototype._bucketIndexToMin, the for (;;) loop and
\* the return after it.  The result is a numerator over Denom.
RECURSIVE LogLinear_minLoop(_, _, _, _, _)
LogLinear_minLoop(b, bidx, i, minorder, maxorder) ==
    LET orderbuckets == Min(maxorder, b.lb_nbuckets)
        uniquebuckets == IF i = 0
                         THEN orderbuckets
                         ELSE orderbuckets - (orderbuckets \div b.lb_base)
        bucketsize == maxorder \div orderbuckets
    IN  IF i + uniquebuckets > bidx
        THEN (minorder + (bidx - i) * bucketsize) * Denom
        ELSE LogLinear_minLoop(b, bidx, i + uniquebuckets, maxorder,
                               maxorder * b.lb_base)

LogLinear_bucketIndexToMin(b, bidx) ==
    LogLinear_minLoop(b, bidx, 0, 0, b.lb_base)

\* skP2Bucketizer.prototype._bucketIndexToMin.
P2_bucketIndexToMin(bidx) ==
    IF bidx = 0 THEN 0 ELSE Pow(2, bidx - 1) * Denom

\* Mutant of P2_valueLoop: the loop test is "<" where the code has "<=".
RECURSIVE P2_valueLoop_strict(_, _, _)
P2_valueLoop_strict(value, thresh, count) ==
    IF 2 * thresh * Denom < value
    THEN P2_valueLoop_strict(value, thresh * 2, count + 1)
    ELSE count

\* skP2Bucketizer.prototype._valueToBucketIndex: the while loop.
RECURSIVE P2_valueLoop(_, _, _)
P2_valueLoop(value, thresh, count) ==
    IF 2 * thresh * Denom <= value
    THEN P2_valueLoop(value, thresh * 2, count + 1)
    ELSE count

\* Mutant of P2_valueToBucketIndex: the value 0 is not a case of its own.
P2_valueToBucketIndex_nozero(value) == P2_valueLoop(value, 1, 1)

P2_valueToBucketIndex(value) ==
    IF value = 0 THEN 0 ELSE P2_valueLoop(value, 1, 1)

\* Method dispatch on the bucketizer's class.
_bucketIndexToMin(b, bidx) ==
    CASE b.kind = "linear" -> Linear_bucketIndexToMin(b, bidx)
      [] b.kind = "loglinear" -> LogLinear_bucketIndexToMin(b, bidx)
      [] b.kind = "p2" -> P2_bucketIndexToMin(bidx)

_valueToBucketIndex(b, value) ==
    CASE b.kind = "linear" -> Linear_valueToBucketIndex(b, value)
      [] b.kind = "loglinear" -> LogLinear_valueToBucketIndex(b, value)
      [] b.kind = "p2" -> P2_valueToBucketIndex(value)

\* skBucketizer.prototype.bucketMin for an argument that is >= 0; the
\* callers that can hand it anything else (bucketize on a new ordinal,
\* _flush on a key of the tree) model its assertion themselves.
bucketMin(b, i) == _bucketIndexToMin(b, i)

\* A bound of a bucket is a numerator over 10 * Denom, so that the maximum of
\* a bucket less than 1 wide, nextmin - (nextmin - min) / 10, is exact.
Bound(x) == x * 10

\* Mutant of bucketMax: the maximum is the next bucket's minimum (the bound
\* is exclusive).
bucketMax_exclusive(b, i) ==
    [out |-> "return", max |-> Bound(_bucketIndexToMin(b, i + 1))]

\* skBucketizer.prototype.bucketMax(i): the bound returned, or the
\* assertion that threw.  min and nextmin are numerators over Denom.
bucketMax(b, i) ==
    LET min == _bucketIndexToMin(b, i)
        nextmin == _bucketIndexToMin(b, i + 1)
    IN  IF ~(i >= 0) THEN [out |-> "assert:1048", max |-> 0]
        ELSE IF ~(min >= 0) THEN [out |-> "assert:1050", max |-> 0]
        ELSE IF ~(nextmin > min) THEN [out |-> "assert:1052", max |-> 0]
        ELSE IF nextmin - min >= Denom
        THEN [out |-> "return", max |-> Bound(nextmin - Denom)]
        ELSE [out |-> "return", max |-> Bound(nextmin) - (nextmin - min)]

\* The bucketizers of the model: makeLinearBucketizer(1),
\* makeLinearBucketizer(3/Denom), makeLinearBucketizer(10),
\* makeLogLinearBucketizer(2, 4), makeLogLinearBucketizer(10, 20) and
\* makeP2Bucketizer().
Bucketizers ==
    {skLinearBucketizer(Denom), skLinearBucketizer(3),
     skLinearBucketizer(10 * Denom), skLogLinearBucketizer(2, 4),
     skLogLinearBucketizer(10, 20), skP2Bucketizer}

\* The bucketizers whose buckets the values 0 .. MaxNum/Denom spread over.
DistBucketizers ==
    {skLinearBucketizer(Denom), skLinearBucketizer(3),
     skLogLinearBucketizer(2, 4), skP2Bucketizer}

\* ------------------------------------------------------------ distribution
\* A distribution is a sequence of entries <<ordinal, count>>.  JavaScript
\* indexes it from 0; "i" below is the JavaScript index, d[i + 1] the entry.

\* Mutant of bucketizeScan: the loop does not test whether the entry's
\* bucket holds the value.
RECURSIVE bucketizeScan_nomatch(_, _, _, _)
bucketizeScan_nomatch(b, d, value, i) ==
    IF i >= Len(d)
    THEN [i |-> i, found |-> FALSE]
    ELSE IF value < bucketMin(b, d[i + 1][1])
         THEN [i |-> i, found |-> FALSE]
         ELSE bucketizeScan_nomatch(b, d, value, i + 1)

\* bucketize, the for loop: the index at which it stops, and whether it
\* stopped on an entry whose bucket holds the value.
RECURSIVE bucketizeScan(_, _, _, _)
bucketizeScan(b, d, value, i) ==
    IF i >= Len(d)
    THEN [i |-> i, found |-> FALSE]
    ELSE LET bmin == bucketMin(b, d[i + 1][1])
             bmax == bucketMin(b, d[i + 1][1] + 1)
         IN  IF value >= bmin /\ value < bmax
             THEN [i |-> i, found |-> TRUE]
             ELSE IF value < bmin
                  THEN [i |-> i, found |-> FALSE]
                  ELSE bucketizeScan(b, d, value, i + 1)

\* Mutant of bucketize: the new entry is pushed at the end of the array
\* where the code splices it in at index i, and the two assertions on the
\* insertion point are gone.
bucketize_push(b, d, value, card) ==
    LET s == bucketizeScan(b, d, value, 0)
        i == s.i
        bidx == _valueToBucketIndex(b, value)
        ent == <<bidx, card>>
    IN  IF s.found
        THEN [rv |-> [d EXCEPT ![i + 1] = <<d[i + 1][1], d[i + 1][2] + card>>],
              out |-> "return"]
        ELSE IF ~(value >= bucketMin(b, bidx))
        THEN [rv |-> d, out |-> "assert:1091"]
        ELSE IF ~(value < bucketMin(b, bidx + 1))
        THEN [rv |-> d, out |-> "assert:1092"]
        ELSE [rv |-> Append(d, ent), out |-> "return"]

\* skBucketizer.prototype.bucketize(rv, value, card): the distribution after
\* the call and how the call ended: "return", or the assertion that threw
\* (the array is then as it was; "assert:1030" is bucketMin's, reached with
\* the negative ordinal of a negative value).
bucketize(b, d, value, card) ==
    LET s == bucketizeScan(b, d, value, 0)
        i == s.i
        bidx == _valueToBucketIndex(b, value)
        ent == <<bidx, card>>
    IN  IF s.found
        THEN [rv |-> [d EXCEPT ![i + 1] = <<d[i + 1][1], d[i + 1][2] + card>>],
              out |-> "return"]
        ELSE IF ~(i = Len(d) \/ value < bucketMin(b, d[i + 1][1]))
        THEN [rv |-> d, out |-> "assert:1088"]
        ELSE IF ~(i = 0 \/ value >= bucketMin(b, d[i][1] + 1))
        THEN [rv |-> d, out |-> "assert:1089"]
        ELSE IF ~(bidx >= 0)
        THEN [rv |-> d, out |-> "assert:1030"]
        ELSE IF ~(value >= bucketMin(b, bidx))
        THEN [rv |-> d, out |-> "assert:1091"]
        ELSE IF ~(value < bucketMin(b, bidx + 1))
        THEN [rv |-> d, out |-> "assert:1092"]
        ELSE [rv |-> SubSeq(d, 1, i) \o <<ent>> \o SubSeq(d, i + 1, Len(d)),
              out |-> "return"]

\* skOrdinalToBounds, the function given to dist.map: the new row
\* [ [ bmin, bmax ], row[1] ].
boundsRow(b, row) ==
    <<<<Bound(bucketMin(b, row[1])), bucketMax(b, row[1]).max>>, row[2]>>

\* skOrdinalToBounds(bucketizer, dist): the array map() returns, the array
\* dist after the call, and "return" or the first assertion that threw.
skOrdinalToBounds(b, dist) ==
    IF \E k \in 1..Len(dist) : bucketMax(b, dist[k][1]).out # "return"
    THEN [rv |-> <<>>, dist |-> dist,
          out |-> bucketMax(b, dist[CHOOSE k \in 1..Len(dist) :
                      /\ bucketMax(b, dist[k][1]).out # "return"
                      /\ \A j \in 1..(k - 1) :
                            bucketMax(b, dist[j][1]).out = "return"][1]).out]
    ELSE [rv |-> [k \in 1..Len(dist) |-> boundsRow(b, dist[k])],
          dist |-> dist, out |-> "return"]

\* ------------------------------------------------------- JavaScript values
\* A value is a record [t, n, s]: a finite number (t = "num", n its numerator
\* over Denom), NaN, +Infinity, -Infinity, a string (t = "str", s its text)
\* or undefined.
Num(n) == [t |-> "num", n |-> n, s |-> ""]
Whole(k) == Num(k * Denom)
NaN == [t |-> "nan", n |-> 0, s |-> ""]
PosInfinity == [t |-> "inf", n |-> 0, s |-> ""]
NegInfinity == [t |-> "ninf", n |-> 0, s |-> ""]
Str(s) == [t |-> "str", n |-> 0, s |-> s]
Undefined == [t |-> "undef", n |-> 0, s |-> ""]

typeof(x) ==
    CASE x.t \in {"num", "nan", "inf", "ninf"} -> "number"
      [] x.t = "str" -> "string"
      [] x.t = "undef" -> "undefined"

isNaN(x) == x.t = "nan"

\* a === b on two numbers: NaN equals nothing, itself included.
StrictEquals(a, b) == a.t # "nan" /\ b.t # "nan" /\ a = b

\* a + b on two numbers.
Plus(a, b) ==
    CASE a.t = "nan" \/ b.t = "nan" -> NaN
      [] a.t = "inf" -> IF b.t = "ninf" THEN NaN ELSE PosInfinity
      [] a.t = "ninf" -> IF b.t = "inf" THEN NaN ELSE NegInfinity
      [] b.t = "inf" -> PosInfinity
      [] b.t = "ninf" -> NegInfinity
      [] OTHER -> Num(a.n + b.n)

\* The decimal numerals of the integers -MaxKey .. MaxKey.
Numeral == [k \in (0 - MaxKey)..MaxKey |-> ToString(k)]

IsNumeral(s) == \E k \in DOMAIN Numeral : Numeral[k] = s

NumeralValue(s) == CHOOSE k \in DOMAIN Numeral : Numeral[k] = s

\* String(x), the text under which a value is used as a property key.  The
\* numbers that become keys are integers, NaN and the infinities.
ToPropertyKey(x) ==
    CASE x.t = "num" -> IF x.n % Denom = 0
                        THEN ToString(x.n \div Denom)
                        ELSE ToString(x.n) \o "/" \o ToString(Denom)
      [] x.t = "nan" -> "NaN"
      [] x.t = "inf" -> "Infinity"
      [] x.t = "ninf" -> "-Infinity"
      [] x.t = "str" -> x.s
      [] x.t = "undef" -> "undefined"

\* +s, the number a key text converts back to.
ToNumber(s) ==
    CASE IsNumeral(s) -> Whole(NumeralValue(s))
      [] s = "Infinity" -> PosInfinity
      [] s = "-Infinity" -> NegInfinity
      [] OTHER -> NaN

\* parseFloat(s) on the strings of the model: a numeral or "Infinity" parses
\* whole, "3px" parses its numeric prefix, any other text gives NaN.
parseFloat(s) ==
    CASE IsNumeral(s) -> Whole(NumeralValue(s))
      [] s = "Infinity" -> PosInfinity
      [] s = "-Infinity" -> NegInfinity
      [] s = "3px" -> Whole(3)
      [] OTHER -> NaN

\* ------------------------------------------------------ JavaScript objects
\* A node of the tree sa_value is a number (leaf) or an object.  An object
\* is the sequence of its properties [key, val] in the order for..in
\* enumerates them: the keys that are array indexes ascending, then the
\* other keys in the order they were created.
Leaf(x) == [leaf |-> TRUE, num |-> x, props |-> <<>>]
Object(props) == [leaf |-> FALSE, num |-> Undefined, props |-> props]
EmptyObject == Object(<<>>)

IsArrayIndex(key) == IsNumeral(key) /\ NumeralValue(key) >= 0

hasOwnProperty(o, key) == \E k \in 1..Len(o.props) : o.props[k].key = key

GetProperty(o, key) ==
    o.props[CHOOSE k \in 1..Len(o.props) : o.props[k].key = key].val

\* o[key] = val for a key o has: the property keeps its place.
SetProperty(o, key, val) ==
    Object([k \in 1..Len(o.props) |->
               IF o.props[k].key = key
               THEN [key |-> key, val |-> val]
               ELSE o.props[k]])

\* The properties of o that for..in enumerates before a new key.
Before(o, key) ==
    {k \in 1..Len(o.props) :
        IF IsArrayIndex(key)
        THEN /\ IsArrayIndex(o.props[k].key)
             /\ NumeralValue(o.props[k].key) < NumeralValue(key)
        ELSE TRUE}

\* o[key] = val for a key o does not have.
DefineProperty(o, key, val) ==
    LET n == Cardinality(Before(o, key))
    IN  Object(SubSeq(o.props, 1, n) \o <<[key |-> key, val |-> val]>>
               \o SubSeq(o.props, n + 1, Len(o.props)))

\* mod_jsprim.pluck(fields, field) for a field name without dots.
pluck(fields, field) ==
    IF field \in DOMAIN fields THEN fields[field] ELSE Undefined

\* -------------------------------------------------------------- Aggregator
\* The kinds of object that have a _valueToBucketIndex method.
BucketizerKinds == {"linear", "loglinear", "p2"}

\* The element of a set of one element.
The(S) == CHOOSE x \in S : TRUE

\* bucketizer._valueToBucketIndex(x) for any number x that is not NaN: the
\* ordinal as a value, or hang when the method's loop never ends.  Infinity
\* stays >= maxorder (LogLinear) and >= 2 * thresh (PowerOfTwo) for ever;
\* -Infinity fails both loop tests at once.
valueToBucketIndexOf(b, x) ==
    CASE x.t = "num" ->
            [hang |-> FALSE, val |-> Whole(_valueToBucketIndex(b, x.n))]
      [] x.t = "inf" ->
            IF b.kind = "linear"
            THEN [hang |-> FALSE, val |-> PosInfinity]
            ELSE [hang |-> TRUE, val |-> Undefined]
      [] x.t = "ninf" ->
            IF b.kind = "p2"
            THEN [hang |-> FALSE, val |-> Whole(1)]
            ELSE [hang |-> FALSE, val |-> NegInfinity]

\* aggregate, the body of "if (this.sa_bucketizers.hasOwnProperty(field))"
\* from the test of fieldvalue on: the rejection, or the ordinal the
\* bucketizer gives.  "handed" lists what was passed to the bucketizer.
quantizeNumber(b, fieldvalue, nparsed) ==
    IF typeof(fieldvalue) # "number" \/ isNaN(fieldvalue)
    THEN [out |-> "rejected", nparsed |-> nparsed, val |-> fieldvalue,
          handed |-> <<>>]
    ELSE IF b.kind \notin BucketizerKinds
    THEN [out |-> "TypeError:888", nparsed |-> nparsed, val |-> fieldvalue,
          handed |-> <<>>]
    ELSE [out |-> IF valueToBucketIndexOf(b, fieldvalue).hang
                  THEN "hang" ELSE "ok",
          nparsed |-> nparsed,
          val |-> valueToBucketIndexOf(b, fieldvalue).val,
          handed |-> <<fieldvalue>>]

\* Mutant of quantizeField: sa_nparsed is not incremented before parseFloat.
quantizeField_uncounted(bucketizers, field, raw) ==
    IF field \notin DOMAIN bucketizers
    THEN [out |-> "ok", nparsed |-> 0, val |-> raw, handed |-> <<>>]
    ELSE IF typeof(raw) = "string"
    THEN quantizeNumber(bucketizers[field], parseFloat(raw.s), 0)
    ELSE quantizeNumber(bucketizers[field], raw, 0)

\* Mutant of quantizeField: a string is counted as parsed but what parseFloat
\* made of it is dropped, so it is never a number.
quantizeField_unparsed(bucketizers, field, raw) ==
    IF field \notin DOMAIN bucketizers
    THEN [out |-> "ok", nparsed |-> 0, val |-> raw, handed |-> <<>>]
    ELSE IF typeof(raw) = "string"
    THEN quantizeNumber(bucketizers[field], NaN, 1)
    ELSE quantizeNumber(bucketizers[field], raw, 0)

\* aggregate, one field of the loop: the value to descend with (the raw
\* value of a field without bucketizer; the ordinal, after the optional
\* parseFloat, of a field with one), or the rejection.
quantizeField(bucketizers, field, raw) ==
    IF field \notin DOMAIN bucketizers
    THEN [out |-> "ok", nparsed |-> 0, val |-> raw, handed |-> <<>>]
    ELSE IF typeof(raw) = "string"
    THEN quantizeNumber(bucketizers[field], parseFloat(raw.s), 1)
    ELSE quantizeNumber(bucketizers[field], raw, 0)

\* Mutant of leafUpdate: the leaf is assigned datapt.value ("=" where the
\* code has "+=").
leafUpdate_assign(o, value, ndecomps) ==
    IF ~o.leaf
    THEN [node |-> o, out |-> IF ndecomps > 0 THEN "assert:915"
                                              ELSE "assert:921"]
    ELSE IF ~StrictEquals(o.num, o.num)
    THEN [node |-> o, out |-> IF ndecomps > 0 THEN "assert:916"
                                              ELSE "assert:920"]
    ELSE [node |-> Leaf(value), out |-> "return"]

\* aggregate, after the loop: the update of the leaf "o" by datapt.value,
\* with the assertions made before it.
leafUpdate(o, value, ndecomps) ==
    IF ~o.leaf
    THEN [node |-> o, out |-> IF ndecomps > 0 THEN "assert:915"
                                              ELSE "assert:921"]
    ELSE IF ~StrictEquals(o.num, o.num)
    THEN [node |-> o, out |-> IF ndecomps > 0 THEN "assert:916"
                                              ELSE "assert:920"]
    ELSE [node |-> Leaf(Plus(o.num, value)), out |-> "return"]

\* What a walk that ends at node o reports.
walkEnd(o, outcome, nparsed, field, passed) ==
    [node |-> o, out |-> outcome, nparsed |-> nparsed, field |-> field,
     handed |-> passed]

\* Mutant of childNode: the zero node is created also when the key exists
\* (the hasOwnProperty test at the head of the descent is skipped).
childNode_fresh(o, key, i, ndecomps) ==
    IF i < ndecomps - 1 THEN EmptyObject ELSE Leaf(Whole(0))

\* Mutant of childNode: the leaf created for a new key starts at 1, not 0.
childNode_one(o, key, i, ndecomps) ==
    IF hasOwnProperty(o, key)
    THEN GetProperty(o, key)
    ELSE IF i < ndecomps - 1 THEN EmptyObject ELSE Leaf(Whole(1))

\* aggregate, "o[fieldvalue]" at iteration i: the node that is there, or
\* the zero node created for a key seen for the first time.
childNode(o, key, i, ndecomps) ==
    IF hasOwnProperty(o, key)
    THEN GetProperty(o, key)
    ELSE IF i < ndecomps - 1 THEN EmptyObject ELSE Leaf(Whole(0))

\* Mutant of walkJoin: the node keeps only the property walked (its other
\* keys are lost).
walkJoin_alone(o, key, q, sub) ==
    [node |-> Object(<<[key |-> key, val |-> sub.node]>>),
     out |-> sub.out,
     nparsed |-> q.nparsed + sub.nparsed,
     field |-> sub.field,
     handed |-> q.handed \o sub.handed]

\* Node o once the walk below its property "key" has ended as "sub": what
\* the loop created stays, also when a later field ends the call.
walkJoin(o, key, q, sub) ==
    [node |-> IF hasOwnProperty(o, key)
              THEN SetProperty(o, key, sub.node)
              ELSE DefineProperty(o, key, sub.node),
     out |-> sub.out,
     nparsed |-> q.nparsed + sub.nparsed,
     field |-> sub.field,
     handed |-> q.handed \o sub.handed]

\* aggregate, the for loop from iteration i (counted from 0) at node o, and
\* the leaf update after it.
RECURSIVE aggregateWalk(_, _, _, _, _)
RECURSIVE walkField(_, _, _, _, _, _)
walkField(decomps, bucketizers, o, i, dp, q) ==
    IF q.out # "ok"
    THEN walkEnd(o, q.out, q.nparsed, decomps[i + 1], q.handed)
    ELSE The({walkJoin(o, ToPropertyKey(q.val), q, sub) :
                 sub \in {aggregateWalk(decomps, bucketizers,
                                        childNode(o, ToPropertyKey(q.val),
                                                  i, Len(decomps)),
                                        i + 1, dp)}})

aggregateWalk(decomps, bucketizers, o, i, dp) ==
    IF i >= Len(decomps)
    THEN walkEnd(leafUpdate(o, dp.value, Len(decomps)).node,
                 leafUpdate(o, dp.value, Len(decomps)).out, 0, "", <<>>)
    ELSE IF o.leaf
    THEN walkEnd(o, "assert:865", 0, "", <<>>)
    ELSE The({walkField(decomps, bucketizers, o, i, dp, q) :
                 q \in {quantizeField(bucketizers, decomps[i + 1],
                                      pluck(dp.fields, decomps[i + 1]))}})

\* Mutant of aggregateEnd: the event carries sa_nrecords as it was before
\* this call's increment (a position counted from 0).
aggregateEnd_zeroBased(self, dp, w) ==
    [sa_value |-> w.node,
     sa_nrecords |-> self.sa_nrecords + 1,
     sa_nnonnumeric |-> self.sa_nnonnumeric
                           + (IF w.out = "rejected" THEN 1 ELSE 0),
     sa_nparsed |-> self.sa_nparsed + w.nparsed,
     out |-> w.out,
     emitted |-> IF w.out = "rejected"
                 THEN <<[datapt |-> dp, field |-> w.field,
                         message |-> "value for field \"" \o w.field
                                         \o "\" is not a number",
                         num |-> self.sa_nrecords]>>
                 ELSE <<>>,
     handed |-> w.handed]

\* aggregate, once the walk "w" has ended: the fields of the Aggregator and
\* the invalid_object event, if any.
aggregateEnd(self, dp, w) ==
    [sa_value |-> w.node,
     sa_nrecords |-> self.sa_nrecords + 1,
     sa_nnonnumeric |-> self.sa_nnonnumeric
                           + (IF w.out = "rejected" THEN 1 ELSE 0),
     sa_nparsed |-> self.sa_nparsed + w.nparsed,
     out |-> w.out,
     emitted |-> IF w.out = "rejected"
                 THEN <<[datapt |-> dp, field |-> w.field,
                         message |-> "value for field \"" \o w.field
                                         \o "\" is not a number",
                         num |-> self.sa_nrecords + 1]>>
                 ELSE <<>>,
     handed |-> w.handed]

\* skAggregator.prototype.aggregate(datapt) on the Aggregator "self": the
\* fields after the call, how the call ended ("return", "rejected" after
\* emitting invalid_object, the assertion that threw, or "hang"), the
\* invalid_object events emitted and the values handed to bucketizers.
aggregate(self, dp) ==
    IF typeof(dp.value) # "number"
    THEN [sa_value |-> self.sa_value,
          sa_nrecords |-> self.sa_nrecords + 1,
          sa_nnonnumeric |-> self.sa_nnonnumeric,
          sa_nparsed |-> self.sa_nparsed,
          out |-> "assert:843", emitted |-> <<>>, handed |-> <<>>]
    ELSE The({aggregateEnd(self, dp, w) :
                 w \in {aggregateWalk(self.sa_decomps, self.sa_bucketizers,
                                      self.sa_value, 0, dp)}})

\* mod_jsprim.flattenObject(data, depth): [ data ] at depth 0; otherwise,
\* for each key in for..in order and each element p of the flattened
\* data[key], the row [ key ].concat(p).  Keys are strings.
RECURSIVE flattenObject(_, _)
RECURSIVE flattenProps(_, _, _)
\* [ key ].concat(p): p is a row, or at depth 1 the leaf itself.
concatKey(key, p, depth) ==
    IF depth = 1 THEN <<Str(key), p>> ELSE <<Str(key)>> \o p

flattenRows(key, sub, depth) ==
    [j \in 1..Len(sub) |-> concatKey(key, sub[j], depth)]

flattenProps(props, depth, k) ==
    IF k > Len(props)
    THEN <<>>
    ELSE flattenRows(props[k].key, flattenObject(props[k].val, depth - 1),
                     depth)
         \o flattenProps(props, depth, k + 1)

flattenObject(data, depth) ==
    IF depth = 0
    THEN <<IF data.leaf THEN data.num ELSE Undefined>>
    ELSE flattenProps(data.props, depth, 1)

\* result(), the loop over one row: row[i] = +row[i] for each field that
\* has a bucketizer.
resultRow(self, row) ==
    [i \in 1..Len(row) |->
        IF /\ i <= Len(self.sa_decomps)
           /\ self.sa_decomps[i] \in DOMAIN self.sa_bucketizers
        THEN ToNumber(row[i].s)
        ELSE row[i]]

resultRows(self, rows) ==
    IF Len(self.sa_decomps) = 0
    THEN rows
    ELSE [j \in 1..Len(rows) |-> resultRow(self, rows[j])]

\* skAggregator.prototype.result().
result(self) ==
    resultRows(self, flattenObject(self.sa_value, Len(self.sa_decomps)))

\* skAggregator.prototype.stats().
stats(self) ==
    [ninputs |-> self.sa_nrecords, nparsed |-> self.sa_nparsed,
     nerr_nonnumeric |-> self.sa_nnonnumeric]

\* The key a row of result() shows for a field of the descent: the ordinal
\* as a number for a field with a bucketizer, the property key otherwise.
rowKey(bucketizers, field, q) ==
    IF field \in DOMAIN bucketizers
    THEN q.val
    ELSE Str(ToPropertyKey(q.val))

\* The keys the descent loop of aggregate walks for datapt, from field i
\* on: none when the assertion on datapt.value throws, and none from a
\* rejected field on.
RECURSIVE walkedKeys(_, _, _, _)
RECURSIVE walkedFrom(_, _, _, _, _)
walkedFrom(decomps, bucketizers, dp, i, q) ==
    IF q.out # "ok"
    THEN <<>>
    ELSE <<rowKey(bucketizers, decomps[i], q)>>
         \o walkedKeys(decomps, bucketizers, dp, i + 1)

walkedKeys(decomps, bucketizers, dp, i) ==
    IF i > Len(decomps) \/ typeof(dp.value) # "number"
    THEN <<>>
    ELSE walkedFrom(decomps, bucketizers, dp, i,
                    quantizeField(bucketizers, decomps[i],
                                  pluck(dp.fields, decomps[i])))

\* ------------------------------------------------------------- data points
FieldNames == {"city", "state", "host", "util"}

\* A data point { fields: {...}, value: ... }; a field it does not have
\* plucks as undefined.
DataPoint(city, state, host, util, value) ==
    [fields |-> [f \in FieldNames |->
                    CASE f = "city" -> city
                      [] f = "state" -> state
                      [] f = "host" -> host
                      [] f = "util" -> util],
     value |-> value]

NoPoint == DataPoint(Undefined, Undefined, Undefined, Undefined, Undefined)

City(city, state, value) ==
    DataPoint(Str(city), Str(state), Undefined, Undefined, Whole(value))

\* The populations of six cities (README.md, tests/tst.basic.js).
CityPoints ==
    <<City("Springfield", "MA", 153000), City("Boston", "MA", 636000),
      City("Worcestor", "MA", 183000), City("Fresno", "CA", 505000),
      City("Springfield", "OR", 60000), City("Portland", "OR", 600000)>>

\* Host records: "host" is discrete, "util" is the field with a bucketizer.
\* util is 1/Denom, 3, a numeral, a string with a numeric prefix, a string
\* that is no number, absent, or not finite; value is 1, 2, or no finite
\* number.
HostValues == {Str("h1"), Str("h2")}

UtilValues ==
    {Num(1), Whole(3), Str("3"), Str("3px"), Str("bogus!"), Undefined,
     NaN, PosInfinity, NegInfinity, Str("Infinity")}

ValueValues ==
    {Whole(1), Whole(2), NaN, PosInfinity, Str("1"), Undefined}

\* Every util with value 1, every value with util 3, a record in which
\* neither is a number, a record whose host is a numeric-looking string,
\* one whose host is a number and one whose util is negative.
HostPoints ==
    {DataPoint(Undefined, Undefined, h, u, Whole(1)) :
        h \in HostValues, u \in UtilValues}
    \cup {DataPoint(Undefined, Undefined, h, Whole(3), v) :
        h \in HostValues, v \in ValueValues}
    \cup {DataPoint(Undefined, Undefined, h, Str("bogus!"), Undefined) :
        h \in HostValues}
    \cup {DataPoint(Undefined, Undefined, Str("1"), Whole(3), Whole(1)),
          DataPoint(Undefined, Undefined, Whole(1), Whole(3), Whole(1)),
          DataPoint(Undefined, Undefined, Str("h1"), Whole(-1), Whole(1))}

CityDecomps == {<<>>, <<"state">>, <<"city">>, <<"state", "city">>}

HostDecomps == {<<>>, <<"util">>, <<"host", "util">>, <<"util", "host">>}

UtilBucketizers == {skLinearBucketizer(2 * Denom), skP2Bucketizer}

NoBucketizers == [f \in {} |-> skP2Bucketizer]

NoEvent == [datapt |-> NoPoint, field |-> "", message |-> "", num |-> 0]

\* The Aggregator is not in use.
aggIdle ==
    /\ sa_decomps = <<>>
    /\ sa_bucketizers = NoBucketizers
    /\ sa_value = Leaf(Whole(0))
    /\ sa_nrecords = 0
    /\ sa_nnonnumeric = 0
    /\ sa_nparsed = 0
    /\ datapt = NoPoint
    /\ out = "none"
    /\ nemitted = 0
    /\ event = NoEvent
    /\ handed = <<>>
    /\ shadow = Leaf(Whole(0))
    /\ total = Whole(0)
    /\ ncalls = 0
    /\ inorder = TRUE
    /\ log = <<>>

\* --------------------------------------------------- constructor arguments
\* A value passed as args.decomps or args.bucketizers: undefined, null, a
\* string, a number, an array of field names (seq) or an object mapping
\* field names to values (map).  "truthy" is what "if (value)" tests.
ArgValue(t, truthy, seq, map) ==
    [t |-> t, truthy |-> truthy, seq |-> seq, map |-> map]

UndefinedArg == ArgValue("undefined", FALSE, <<>>, NoBucketizers)
NullArg == ArgValue("null", FALSE, <<>>, NoBucketizers)
StringArg(truthy) == ArgValue("string", truthy, <<>>, NoBucketizers)
NumberArg(truthy) == ArgValue("number", truthy, <<>>, NoBucketizers)
ArrayArg(seq) == ArgValue("array", TRUE, seq, NoBucketizers)
ObjectArg(map) == ArgValue("object", TRUE, <<>>, map)

typeofArg(x) ==
    IF x.t \in {"null", "array", "object"} THEN "object" ELSE x.t

\* A value of the bucketizer map that is no bucketizer: the number 42.
NotABucketizer ==
    [kind |-> "number", lb_step |-> 0, lb_base |-> 0, lb_nbuckets |-> 0]

\* No Aggregator has been constructed through ctor_args.
NoArgs == [decomps |-> UndefinedArg, bucketizers |-> UndefinedArg]

ctorIdle ==
    /\ ctor_args = NoArgs
    /\ ctor_out = "none"
    /\ mk_base = 0
    /\ mk_nbuckets = 0
    /\ mk_out = "none"

\* No distribution is being expanded.
expandIdle == script = <<>> /\ expanded = <<>>

\* The stream side of the Aggregator is not in use.
streamIdle ==
    /\ ws_buffer = <<>>
    /\ ws_writing = FALSE
    /\ ws_ending = FALSE
    /\ rs_buffer = <<>>
    /\ rs_flowing = FALSE
    /\ items = <<>>
    /\ written = <<>>
    /\ ingested = <<>>
    /\ nflush = 0
    /\ atend = <<>>
    /\ batchrv = <<>>
    /\ sa_aspoints = FALSE
    /\ refed = <<>>
    /\ flush_out = "none"
    /\ ctorIdle
    /\ expandIdle

\* ----------------------------------------------- specification: SpecDist
\* One distribution, empty at first, and up to MaxObs calls of bucketize.
qIdle == q_bidx = -1 /\ q_min = -1 /\ q_back = -1

InitDist ==
    /\ bk \in DistBucketizers
    /\ rv = <<>>
    /\ obs = <<>>
    /\ qIdle
    /\ aggIdle
    /\ streamIdle

Bucketize(value, card) ==
    /\ Len(obs) < MaxObs
    /\ LET r == bucketize(bk, rv, value, card)
       IN  /\ rv' = r.rv
           /\ obs' = Append(obs, [value |-> value, card |-> card,
                                  out |-> r.out])
    /\ UNCHANGED <<bk, qVars, aggVars, streamVars, ctorVars, expandVars>>

NextDist == \E value \in 0..MaxNum, card \in Cards : Bucketize(value, card)

SpecDist == InitDist /\ [][NextDist]_vars

\* -------------------------------------------- specification: SpecInverse
\* bucketMin of an ordinal, then _valueToBucketIndex of what it returned.
\* The largest ordinal asked of bucketMin on bucketizer b.
OrdLimit(b) ==
    IF b = skLogLinearBucketizer(10, 20) THEN MaxLogLinearOrd ELSE MaxOrd

InitInverse ==
    /\ bk \in Bucketizers
    /\ rv = <<>>
    /\ obs = <<>>
    /\ qIdle
    /\ aggIdle
    /\ streamIdle

BucketMinOf(i) ==
    /\ i <= OrdLimit(bk)
    /\ q_bidx' = i
    /\ q_min' = bucketMin(bk, i)
    /\ q_back' = -1
    /\ UNCHANGED <<distVars, aggVars, streamVars, ctorVars, expandVars>>

IndexOfMin ==
    /\ q_min # -1
    /\ q_back = -1
    /\ q_back' = _valueToBucketIndex(bk, q_min)
    /\ UNCHANGED <<distVars, aggVars, streamVars, ctorVars, expandVars, q_bidx,
                   q_min>>

NextInverse ==
    \/ \E i \in 0..(MaxOrd + MaxLogLinearOrd) : BucketMinOf(i)
    \/ IndexOfMin

SpecInverse == InitInverse /\ [][NextInverse]_vars

\* --------------------------------------------- specification: SpecExpand
\* A program of the kind of tests/tst.bucketize_linear.js and
\* tests/tst.bucketize_p2.js: it makes a list of bucketize calls on one
\* distribution, empty at first, and calls ordinalToBounds on it at some
\* point.  A call that throws ends the program.
Call(value, card) == [value |-> value * Denom, card |-> card]

\* "for (i = 0; i < 32; i++) func(dist, i, card)", and the same backwards.
FillCount == 32

FillUp(card) == [k \in 1..FillCount |-> Call(k - 1, card)]

FillDown(card) == [k \in 1..FillCount |-> Call(FillCount - k, card)]

\* The values 1, 1 + 1/Denom, .. up to 8, each merged once.
FillFine == [k \in 1..(7 * Denom + 1) |-> [value |-> Denom + k - 1, card |-> 1]]

\* The lists of calls the two tests make on a distribution.
LinearBasic ==
    <<Call(3, 1), Call(0, 2), Call(9, 2), Call(10, 2), Call(14, 7)>>

LinearSparse == <<Call(853, 12), Call(396, 7), Call(858, 2), Call(10345, 17)>>

LinearSeven == <<Call(37, 3), Call(88, 2), Call(35, 1)>>

P2Special ==
    <<Call(1, 3), Call(0, 5), Call(1, 7), Call(0, 2), Call(2, 9), Call(3, 3),
      Call(4, 1)>>

P2Sparse == <<Call(9, 1), Call(3, 7), Call(4, 2)>>

Scripts ==
    {FillUp(card) : card \in 1..3} \cup {FillDown(card) : card \in 1..3}
    \cup {FillFine, LinearBasic, LinearSparse, LinearSeven, P2Special,
          P2Sparse}

\* makeP2Bucketizer(), makeLinearBucketizer(10), makeLinearBucketizer(7),
\* makeLinearBucketizer(1/Denom) and makeLogLinearBucketizer(10, 20).
ExpandBucketizers ==
    {skP2Bucketizer, skLinearBucketizer(10 * Denom),
     skLinearBucketizer(7 * Denom), skLinearBucketizer(1),
     skLogLinearBucketizer(10, 20)}

InitExpand ==
    /\ bk \in ExpandBucketizers
    /\ rv = <<>>
    /\ obs = <<>>
    /\ script \in Scripts
    /\ expanded = <<>>
    /\ qIdle
    /\ aggIdle
    /\ ws_buffer = <<>>
    /\ ws_writing = FALSE
    /\ ws_ending = FALSE
    /\ rs_buffer = <<>>
    /\ rs_flowing = FALSE
    /\ items = <<>>
    /\ written = <<>>
    /\ ingested = <<>>
    /\ nflush = 0
    /\ atend = <<>>
    /\ batchrv = <<>>
    /\ sa_aspoints = FALSE
    /\ refed = <<>>
    /\ flush_out = "none"
    /\ ctorIdle

\* Every call made so far has returned.
Running ==
    /\ \A k \in 1..Len(obs) : obs[k].out = "return"
    /\ IF expanded = <<>> THEN TRUE ELSE expanded[1].out = "return"

\* bucketizer.bucketize(dist, value, card) for the next call of the list.
NextCall ==
    /\ Running
    /\ Len(obs) < Len(script)
    /\ \E r \in {bucketize(bk, rv, script[Len(obs) + 1].value,
                            script[Len(obs) + 1].card)} :
          /\ rv' = r.rv
          /\ obs' = Append(obs, [value |-> script[Len(obs) + 1].value,
                                 card |-> script[Len(obs) + 1].card,
                                 out |-> r.out])
    /\ UNCHANGED <<bk, qVars, aggVars, streamVars, ctorVars, expandVars>>

\* skinner.ordinalToBounds(bucketizer, dist).
Expand ==
    /\ Running
    /\ expanded = <<>>
    /\ \E r \in {skOrdinalToBounds(bk, rv)} :
          /\ expanded' = <<[rv |-> r.rv, dist |-> r.dist, out |-> r.out]>>
          /\ rv' = r.dist
    /\ UNCHANGED <<bk, obs, script, qVars, aggVars, streamVars, ctorVars>>

NextExpand == NextCall \/ Expand

SpecExpand == InitExpand /\ [][NextExpand]_vars

\* --------------------------------------------------- specification: Spec
\* One Aggregator and the aggregate calls made on it.  It is built without
\* bucketizers and fed city records, or with a bucketizer for "util" and fed
\* host records.
Self ==
    [sa_decomps |-> sa_decomps, sa_bucketizers |-> sa_bucketizers,
     sa_value |-> sa_value, sa_nrecords |-> sa_nrecords,
     sa_nnonnumeric |-> sa_nnonnumeric, sa_nparsed |-> sa_nparsed]

\* new skAggregator({ decomps, bucketizers }).
Init ==
    /\ \/ /\ sa_decomps \in CityDecomps
          /\ sa_bucketizers = NoBucketizers
       \/ /\ sa_decomps \in HostDecomps
          /\ \E b \in UtilBucketizers :
                sa_bucketizers = [f \in {"util"} |-> b]
    /\ sa_value = IF Len(sa_decomps) = 0 THEN Leaf(Whole(0)) ELSE EmptyObject
    /\ sa_nrecords = 0
    /\ sa_nnonnumeric = 0
    /\ sa_nparsed = 0
    /\ datapt = NoPoint
    /\ out = "none"
    /\ nemitted = 0
    /\ event = NoEvent
    /\ handed = <<>>
    /\ shadow = sa_value
    /\ total = Whole(0)
    /\ ncalls = 0
    /\ inorder = TRUE
    /\ log = <<>>
    /\ bk = skP2Bucketizer
    /\ rv = <<>>
    /\ obs = <<>>
    /\ qIdle
    /\ streamIdle

FedCities == DOMAIN sa_bucketizers = {}

Inputs ==
    IF FedCities
    THEN {CityPoints[k] : k \in 1..Len(CityPoints)}
    ELSE HostPoints

Limit == IF FedCities THEN Len(CityPoints) ELSE MaxRecords

\* The variables after a call of aggregate that ended as "r", the second
\* Aggregator's call having ended as "r2".
Ingested(dp, r, r2) ==
    /\ sa_value' = r.sa_value
    /\ sa_nrecords' = r.sa_nrecords
    /\ sa_nnonnumeric' = r.sa_nnonnumeric
    /\ sa_nparsed' = r.sa_nparsed
    /\ out' = r.out
    /\ nemitted' = nemitted + Len(r.emitted)
    /\ event' = IF r.emitted = <<>> THEN event ELSE r.emitted[1]
    /\ handed' = r.handed
    /\ shadow' = IF r.out = "rejected" THEN shadow ELSE r2.sa_value
    /\ total' = IF r.out = "return" THEN Plus(total, dp.value) ELSE total
    /\ datapt' = dp
    /\ ncalls' = ncalls + 1
    /\ inorder' = (inorder /\ ncalls < Len(CityPoints)
                       /\ dp = CityPoints[ncalls + 1])
    /\ log' = Append(log, [keys |-> walkedKeys(sa_decomps, sa_bucketizers,
                                                dp, 1),
                            value |-> dp.value, out |-> r.out])
    /\ UNCHANGED <<sa_decomps, sa_bucketizers, distVars, qVars, ctorVars,
                   expandVars>>

\* aggregator.aggregate(dp).  A call that hangs never returns: nothing
\* follows it.
Ingest(dp) ==
    /\ out # "hang"
    /\ ncalls < Limit
    /\ Ingested(dp, aggregate(Self, dp),
                aggregate([Self EXCEPT !.sa_value = shadow], dp))
    /\ UNCHANGED streamVars

Next == \E dp \in Inputs : Ingest(dp)

Spec == Init /\ [][Next]_vars

\* --------------------------------------------- specification: SpecStream
\* The Aggregator used as a Transform stream in object mode (examples/
\* streaming.js, tests/tst.nonnumeric.js): a producer writes data points and
\* ends the stream, Node's event loop runs the callbacks _transform defers
\* with setImmediate, and a consumer attaches a 'data' listener.  The
\* stream is built with highWaterMark 0 and a bucketizer for "util".
\*
\* What Node's Writable and Transform do with the three methods the library
\* supplies: write() hands the chunk to _transform at once when no
\* _transform callback is outstanding, and buffers it otherwise; the
\* callback hands the next buffered chunk to _transform, or, the buffer
\* being empty, ends the write and, after end(), calls _flush; end() calls
\* _flush at once when nothing is outstanding.

\* Data points that aggregate neither throws nor hangs on: util is 3,
\* 1/Denom, -1 or no number, value is 1 or 2.
StreamPoints ==
    {DataPoint(Undefined, Undefined, h, u, Whole(1)) :
        h \in HostValues, u \in {Whole(3), Num(1), Str("bogus!")}}
    \cup {DataPoint(Undefined, Undefined, Str("h1"), Whole(3), Whole(2)),
          DataPoint(Undefined, Undefined, Str("h1"), Whole(-1), Whole(1))}

StreamDecomps == {<<>>, <<"util">>, <<"host", "util">>}

\* new skAggregator({ decomps, bucketizers }): the fields after construction.
newAggregator(decomps, bucketizers) ==
    [sa_decomps |-> decomps, sa_bucketizers |-> bucketizers,
     sa_value |-> IF Len(decomps) = 0 THEN Leaf(Whole(0)) ELSE EmptyObject,
     sa_nrecords |-> 0, sa_nnonnumeric |-> 0, sa_nparsed |-> 0]

\* The Aggregator "self" after a call of aggregate that ended as r.
afterCall(self, r) ==
    [self EXCEPT !.sa_value = r.sa_value, !.sa_nrecords = r.sa_nrecords,
                 !.sa_nnonnumeric = r.sa_nnonnumeric,
                 !.sa_nparsed = r.sa_nparsed]

\* datapts.forEach(function (p) { aggregator.aggregate(p); }) from point k
\* on: the Aggregator after the last call, and "return" or how the call
\* that did not return ended.
RECURSIVE aggregateEach(_, _, _)
RECURSIVE aggregateNext(_, _, _, _)
aggregateNext(self, datapts, k, r) ==
    IF r.out \in {"return", "rejected"}
    THEN aggregateEach(afterCall(self, r), datapts, k + 1)
    ELSE [self |-> afterCall(self, r), out |-> r.out]

aggregateEach(self, datapts, k) ==
    IF k > Len(datapts)
    THEN [self |-> self, out |-> "return"]
    ELSE aggregateNext(self, datapts, k, aggregate(self, datapts[k]))

\* Mutant of _flush: nothing is pushed.
_flush_nothing(self) == <<>>

\* _flush in the default mode: the items it pushes.
_flush(self) == <<result(self)>>

\* flattenIter(data, depth, accum, callback): the rows the callback is
\* called with, in call order.  Keys are strings.
RECURSIVE flattenIter(_, _, _)
RECURSIVE flattenIterProps(_, _, _, _)
flattenIterProps(props, depth, accum, k) ==
    IF k > Len(props)
    THEN <<>>
    ELSE flattenIter(props[k].val, depth - 1,
                     Append(accum, Str(props[k].key)))
         \o flattenIterProps(props, depth, accum, k + 1)

flattenIter(data, depth, accum) ==
    IF depth = 0
    THEN <<Append(accum, IF data.leaf THEN data.num ELSE Undefined)>>
    ELSE flattenIterProps(data.props, depth, accum, 1)

\* bucketizer.bucketMin(x) for any number x: the minimum as a value, the
\* assertion "i >= 0" that threw, or hang (the loop of the log-linear
\* _bucketIndexToMin never gets beyond Infinity).
bucketMinOf(b, x) ==
    CASE x.t = "num" /\ x.n >= 0 ->
            [out |-> "return", val |-> Num(bucketMin(b, x.n \div Denom))]
      [] x.t = "inf" ->
            IF b.kind = "loglinear"
            THEN [out |-> "hang", val |-> Undefined]
            ELSE [out |-> "return", val |-> PosInfinity]
      [] OTHER -> [out |-> "assert:1030", val |-> Undefined]

\* _flush with resultsAsPoints, the body of the loop over the fields: the
\* value the point gets for field i of the row.
pointField(self, row, i) ==
    IF self.sa_decomps[i] \in DOMAIN self.sa_bucketizers
    THEN bucketMinOf(self.sa_bucketizers[self.sa_decomps[i]],
                     ToNumber(row[i].s))
    ELSE [out |-> "return", val |-> row[i]]

\* The fields of the decomposition list that make the callback throw or
\* hang on this row.
pointFails(self, row) ==
    {i \in 1..Len(self.sa_decomps) : pointField(self, row, i).out # "return"}

\* _flush with resultsAsPoints, the callback given to flattenIter: the
\* point made of the row, or how the first field that fails ends the call.
pointOf(self, row) ==
    IF pointFails(self, row) # {}
    THEN [out |-> pointField(self, row,
                             CHOOSE i \in pointFails(self, row) :
                                 \A j \in pointFails(self, row) : i <= j).out,
          point |-> NoPoint]
    ELSE [out |-> "return",
          point |-> [fields |-> [f \in FieldNames |->
                        IF \E i \in 1..Len(self.sa_decomps) :
                               self.sa_decomps[i] = f
                        THEN pointField(self, row,
                                 CHOOSE i \in 1..Len(self.sa_decomps) :
                                     self.sa_decomps[i] = f).val
                        ELSE Undefined],
                     value |-> row[Len(row)]]]

\* The points pushed for the rows from row k on, up to the first row on
\* which the callback does not return.
RECURSIVE pushPoints(_, _, _)
pushNext(p, rest) ==
    IF p.out # "return"
    THEN [pushed |-> <<>>, out |-> p.out]
    ELSE [pushed |-> <<p.point>> \o rest.pushed, out |-> rest.out]

pushPoints(self, rows, k) ==
    IF k > Len(rows)
    THEN [pushed |-> <<>>, out |-> "return"]
    ELSE The({pushNext(p, IF p.out = "return"
                          THEN pushPoints(self, rows, k + 1)
                          ELSE [pushed |-> <<>>, out |-> p.out]) :
                 p \in {pointOf(self, rows[k])}})

\* _flush with resultsAsPoints: the points it pushes, and "return" or how
\* the call ended otherwise.
_flushPoints(self) ==
    pushPoints(self, flattenIter(self.sa_value, Len(self.sa_decomps), <<>>),
               1)

\* Mutant of skAggregateEnd: an empty list of rows is returned.
skAggregateEnd_norows(each) == <<<<>>>>

\* skAggregate, after the forEach: end() and read(0) flush the stream, which
\* pushes result() and leaves the tree alone; then result() is returned.
\* No rows when a call of aggregate threw or never returned.
skAggregateEnd(each) ==
    IF each.out = "return" THEN <<result(each.self)>> ELSE <<>>

\* skAggregate(datapts, decomps, bucketizers).
skAggregate(datapts, decomps, bucketizers) ==
    skAggregateEnd(aggregateEach(newAggregator(decomps, bucketizers),
                                 datapts, 1))

InitStream ==
    /\ sa_decomps \in StreamDecomps
    /\ sa_bucketizers = [f \in {"util"} |-> skLinearBucketizer(2 * Denom)]
    /\ sa_value = newAggregator(sa_decomps, sa_bucketizers).sa_value
    /\ sa_nrecords = 0
    /\ sa_nnonnumeric = 0
    /\ sa_nparsed = 0
    /\ datapt = NoPoint
    /\ out = "none"
    /\ nemitted = 0
    /\ event = NoEvent
    /\ handed = <<>>
    /\ shadow = sa_value
    /\ total = Whole(0)
    /\ ncalls = 0
    /\ inorder = TRUE
    /\ log = <<>>
    /\ bk = skP2Bucketizer
    /\ rv = <<>>
    /\ obs = <<>>
    /\ qIdle
    /\ streamIdle

\* _transform(datapt, _, callback): aggregate, then setImmediate(callback).
Transform(dp) ==
    /\ \E r \in {aggregate(Self, dp)} :
          \E r2 \in {aggregate([Self EXCEPT !.sa_value = shadow], dp)} :
              Ingested(dp, r, r2)
    /\ ingested' = Append(ingested, dp)
    /\ ws_writing' = TRUE

\* The stream calls _flush.
Flush ==
    /\ nflush' = nflush + 1
    /\ IF sa_aspoints
       THEN \E r \in {_flushPoints(Self)} :
               /\ rs_buffer' = rs_buffer \o r.pushed
               /\ flush_out' = r.out
       ELSE /\ rs_buffer' = rs_buffer \o _flush(Self)
            /\ flush_out' = "return"

\* stream.write(dp).
Write(dp) ==
    /\ ~ws_ending
    /\ Len(written) < MaxWrites
    /\ written' = Append(written, dp)
    /\ IF ws_writing
       THEN /\ ws_buffer' = Append(ws_buffer, dp)
            /\ UNCHANGED <<aggVars, distVars, qVars, ctorVars, expandVars,
                           ingested, ws_writing>>
       ELSE /\ Transform(dp)
            /\ UNCHANGED ws_buffer
    /\ UNCHANGED <<ws_ending, rs_buffer, rs_flowing, items, nflush, atend,
                   batchrv, sa_aspoints, refed, flush_out>>

\* stream.end(), and result() called right after it.
End ==
    /\ ~ws_ending
    /\ ws_ending' = TRUE
    /\ atend' = <<result(Self)>>
    /\ IF ws_writing
       THEN UNCHANGED <<nflush, rs_buffer, flush_out>>
       ELSE Flush
    /\ UNCHANGED <<aggVars, distVars, qVars, ctorVars, expandVars,
                   ws_buffer, ws_writing,
                   rs_flowing, items, written, ingested, batchrv,
                   sa_aspoints, refed>>

\* The callback _transform deferred with setImmediate runs.
AfterTransform ==
    /\ ws_writing
    /\ IF ws_buffer # <<>>
       THEN /\ Transform(Head(ws_buffer))
            /\ ws_buffer' = Tail(ws_buffer)
            /\ UNCHANGED <<nflush, rs_buffer, flush_out>>
       ELSE /\ ws_writing' = FALSE
            /\ IF ws_ending THEN Flush ELSE UNCHANGED <<nflush, rs_buffer, flush_out>>
            /\ UNCHANGED <<aggVars, distVars, qVars, ctorVars, expandVars,
                           ws_buffer, ingested>>
    /\ UNCHANGED <<ws_ending, rs_flowing, items, written, atend, batchrv,
                   sa_aspoints, refed>>

\* stream.on('data', ...).
OnData ==
    /\ ~rs_flowing
    /\ rs_flowing' = TRUE
    /\ UNCHANGED <<aggVars, distVars, qVars, ctorVars, expandVars,
                   ws_buffer, ws_writing,
                   ws_ending, rs_buffer, items, written, ingested, nflush,
                   atend, batchrv, sa_aspoints, refed, flush_out>>

\* The 'data' listener is called with the next item pushed.
EmitData ==
    /\ rs_flowing
    /\ rs_buffer # <<>>
    /\ items' = Append(items, Head(rs_buffer))
    /\ rs_buffer' = Tail(rs_buffer)
    /\ UNCHANGED <<aggVars, distVars, qVars, ctorVars, expandVars,
                   ws_buffer, ws_writing,
                   ws_ending, rs_flowing, written, ingested, nflush, atend,
                   batchrv, sa_aspoints, refed, flush_out>>

\* skinner.aggregate(written, decomps, bucketizers): the batch function on
\* the list of points the producer wrote.
Batch ==
    /\ ws_ending
    /\ batchrv = <<>>
    /\ batchrv' = skAggregate(written, sa_decomps, sa_bucketizers)
    /\ UNCHANGED <<aggVars, distVars, qVars, ctorVars, expandVars,
                   ws_buffer, ws_writing,
                   ws_ending, rs_buffer, rs_flowing, items, written,
                   ingested, nflush, atend, sa_aspoints, refed,
                   flush_out>>

NextStream ==
    \/ \E dp \in StreamPoints : Write(dp)
    \/ End
    \/ AfterTransform
    \/ OnData
    \/ EmitData
    \/ Batch

SpecStream == InitStream /\ [][NextStream]_vars

\* setImmediate callbacks run, and the consumer, which attaches its
\* listener unconditionally, is called with every item pushed.
SpecStreamLive ==
    /\ SpecStream
    /\ WF_vars(AfterTransform)
    /\ WF_vars(OnData)
    /\ WF_vars(EmitData)

\* --------------------------------------------- specification: SpecPoints
\* The same stream built with resultsAsPoints: it emits data points, which
\* the consumer then gives to a fresh Aggregator built with the same
\* decomps and bucketizers.
InitPoints ==
    /\ sa_decomps \in StreamDecomps
    /\ sa_bucketizers = [f \in {"util"} |-> skLinearBucketizer(2 * Denom)]
    /\ sa_aspoints = TRUE
    /\ sa_value = newAggregator(sa_decomps, sa_bucketizers).sa_value
    /\ sa_nrecords = 0
    /\ sa_nnonnumeric = 0
    /\ sa_nparsed = 0
    /\ datapt = NoPoint
    /\ out = "none"
    /\ nemitted = 0
    /\ event = NoEvent
    /\ handed = <<>>
    /\ shadow = sa_value
    /\ total = Whole(0)
    /\ ncalls = 0
    /\ inorder = TRUE
    /\ log = <<>>
    /\ bk = skP2Bucketizer
    /\ rv = <<>>
    /\ obs = <<>>
    /\ qIdle
    /\ ws_buffer = <<>>
    /\ ws_writing = FALSE
    /\ ws_ending = FALSE
    /\ rs_buffer = <<>>
    /\ rs_flowing = FALSE
    /\ items = <<>>
    /\ written = <<>>
    /\ ingested = <<>>
    /\ nflush = 0
    /\ atend = <<>>
    /\ batchrv = <<>>
    /\ refed = <<>>
    /\ flush_out = "none"
    /\ ctorIdle
    /\ expandIdle

\* The consumer, having received every item pushed, gives them in order to
\* a fresh Aggregator and calls its result().
Refeed ==
    /\ nflush = 1
    /\ rs_buffer = <<>>
    /\ refed = <<>>
    /\ refed' = <<result(aggregateEach(newAggregator(sa_decomps,
                                                     sa_bucketizers),
                                       items, 1).self)>>
    /\ UNCHANGED <<aggVars, distVars, qVars, ctorVars, expandVars,
                   ws_buffer, ws_writing, ws_ending, rs_buffer, rs_flowing,
                   items, written, ingested, nflush, atend, batchrv,
                   sa_aspoints, flush_out>>

NextPoints == NextStream \/ Refeed

SpecPoints == InitPoints /\ [][NextPoints]_vars

\* ----------------------------------------------- specification: SpecCtor
\* createAggregator(args) for args of every shape, then one aggregate call
\* on the Aggregator when the constructor returned.
DecompsArgs ==
    {UndefinedArg, NullArg, StringArg(FALSE), StringArg(TRUE),
     NumberArg(FALSE), NumberArg(TRUE), ObjectArg(NoBucketizers),
     ArrayArg(<<>>), ArrayArg(<<"util">>), ArrayArg(<<"host", "util">>)}

BucketizersArgs ==
    {UndefinedArg, NullArg, StringArg(FALSE), StringArg(TRUE),
     NumberArg(TRUE), ArrayArg(<<>>), ObjectArg(NoBucketizers),
     ObjectArg([f \in {"util"} |-> skLinearBucketizer(2 * Denom)]),
     ObjectArg([f \in {"util"} |-> skP2Bucketizer]),
     ObjectArg([f \in {"util"} |-> NotABucketizer])}

CtorPoints ==
    {DataPoint(Undefined, Undefined, Str("h1"), u, Whole(1)) :
        u \in {Whole(3), Str("bogus!")}}
    \cup {DataPoint(Undefined, Undefined, Str("h1"), Whole(3), Str("1"))}

\* new skAggregator(args), args being an object: the assertion that throws,
\* or the Aggregator.
skAggregator(args) ==
    IF args.decomps.truthy /\ args.decomps.t # "array"
    THEN [out |-> "assert:789", self |-> newAggregator(<<>>, NoBucketizers)]
    ELSE IF /\ args.bucketizers.truthy
            /\ typeofArg(args.bucketizers) # "object"
    THEN [out |-> "assert:792", self |-> newAggregator(<<>>, NoBucketizers)]
    ELSE [out |-> "ok",
          self |-> newAggregator(
                       IF args.decomps.truthy
                       THEN args.decomps.seq ELSE <<>>,
                       IF args.bucketizers.truthy
                       THEN args.bucketizers.map ELSE NoBucketizers)]

InitCtor ==
    /\ bk = skP2Bucketizer
    /\ rv = <<>>
    /\ obs = <<>>
    /\ qIdle
    /\ aggIdle
    /\ streamIdle

\* skinner.createAggregator(args).
Constructed(args, r) ==
    /\ ctor_args' = args
    /\ ctor_out' = r.out
    /\ sa_decomps' = r.self.sa_decomps
    /\ sa_bucketizers' = r.self.sa_bucketizers
    /\ sa_value' = r.self.sa_value
    /\ shadow' = r.self.sa_value
    /\ UNCHANGED <<sa_nrecords, sa_nnonnumeric, sa_nparsed, datapt, out,
                   nemitted, event, handed, total, ncalls, inorder, log,
                   distVars, qVars, streamVars, expandVars, mk_base,
                   mk_nbuckets, mk_out>>

Construct(args) ==
    /\ ctor_out = "none"
    /\ \E r \in {skAggregator(args)} : Constructed(args, r)

\* The first aggregate call on the Aggregator constructed.
FirstAggregate(dp) ==
    /\ ctor_out = "ok"
    /\ ncalls = 0
    /\ \E r \in {aggregate(Self, dp)} : Ingested(dp, r, r)
    /\ UNCHANGED streamVars

\* new skLogLinearBucketizer(base, nbuckets), the loop "for (maxorder =
\* base; maxorder < nbuckets; maxorder *= base)": the power it stops at, or
\* hang when multiplying by base does not change maxorder.
RECURSIVE LogLinear_maxorder(_, _, _)
LogLinear_maxorder(base, nbuckets, maxorder) ==
    IF ~(maxorder < nbuckets)
    THEN [hang |-> FALSE, maxorder |-> maxorder]
    ELSE IF maxorder * base = maxorder
    THEN [hang |-> TRUE, maxorder |-> maxorder]
    ELSE LogLinear_maxorder(base, nbuckets, maxorder * base)

\* The constructor after the loop ended as m.
LogLinear_checked(nbuckets, m) ==
    IF m.hang
    THEN "hang"
    ELSE IF m.maxorder % nbuckets # 0 THEN "assert:1137" ELSE "ok"

\* new skLogLinearBucketizer(base, nbuckets): how the constructor ends.
LogLinear_new(base, nbuckets) ==
    IF nbuckets % base # 0
    THEN "assert:1132"
    ELSE LogLinear_checked(nbuckets,
                           LogLinear_maxorder(base, nbuckets, base))

\* skinner.makeLogLinearBucketizer(base, nbuckets).
MakeLogLinearBucketizer(base, nbuckets) ==
    /\ mk_out = "none"
    /\ mk_base' = base
    /\ mk_nbuckets' = nbuckets
    /\ mk_out' = LogLinear_new(base, nbuckets)
    /\ UNCHANGED <<distVars, qVars, aggVars, streamVars, expandVars,
                   ctor_args, ctor_out>>

NextCtor ==
    \/ \E d \in DecompsArgs, b \in BucketizersArgs :
          Construct([decomps |-> d, bucketizers |-> b])
    \/ \E dp \in CtorPoints : FirstAggregate(dp)
    \/ \E base \in 1..MaxBase, nbuckets \in 1..MaxBuckets :
          MakeLogLinearBucketizer(base, nbuckets)

SpecCtor == InitCtor /\ [][NextCtor]_vars

\* ------------------------------------------------------ claims on SpecDist
\* The calls of "calls" made in order on the distribution d: the final
\* distribution and whether every call returned.
RECURSIVE BucketizeAll(_, _, _)
BucketizeAll(b, d, calls) ==
    IF calls = <<>>
    THEN [rv |-> d, returned |-> TRUE]
    ELSE LET r == bucketize(b, d, Head(calls).value, Head(calls).card)
             rest == BucketizeAll(b, r.rv, Tail(calls))
         IN  [rv |-> rest.rv,
              returned |-> (r.out = "return") /\ rest.returned]

Orders(n) ==
    {p \in [1..n -> 1..n] : \A i, j \in 1..n : p[i] = p[j] => i = j}

Reordered(calls, p) == [k \in 1..Len(calls) |-> calls[p[k]]]

AllReturned == \A k \in 1..Len(obs) : obs[k].out = "return"

\* The value lies in the bucket of ordinal o: bucketMin(o) <= value and
\* value < bucketMin(o + 1).
InBucket(b, o, value) ==
    bucketMin(b, o) <= value /\ value < bucketMin(b, o + 1)

\* C1: merging the same observations in any order (the order the calls were
\* made in, its reverse, any permutation) ends in the same distribution,
\* entry for entry, every call returning.
C1_MergeCommutes ==
    \A p \in Orders(Len(obs)) :
        BucketizeAll(bk, <<>>, Reordered(obs, p))
            = [rv |-> rv, returned |-> AllReturned]

\* C2: the distribution is strictly ascending by ordinal (so no ordinal
\* appears twice), and every ordinal in it is the bucket of a value that a
\* call which returned has merged.
C2_SortedSparse ==
    /\ \A k \in 1..(Len(rv) - 1) : rv[k][1] < rv[k + 1][1]
    /\ \A k \in 1..Len(rv) :
          \E j \in 1..Len(obs) :
              obs[j].out = "return" /\ InBucket(bk, rv[k][1], obs[j].value)

\* C2 witness: three values merged in descending order, each in a bucket of
\* its own, so that every insertion was at the front.
C2_Witness ==
    /\ Len(obs) = 3
    /\ Len(rv) = 3
    /\ obs[1].value > obs[2].value
    /\ obs[2].value > obs[3].value

\* C4: for every value handed to bucketize, the ordinal computed for it
\* names a bucket that holds it, and neither of the two assertions bucketize
\* makes on a new ordinal fails.
C4_IndexContainsValue ==
    \A k \in 1..Len(obs) :
        /\ InBucket(bk, _valueToBucketIndex(bk, obs[k].value), obs[k].value)
        /\ obs[k].out \notin {"assert:1091", "assert:1092"}

\* The entries of d but the one at index p.
Without(d, p) == SubSeq(d, 1, p - 1) \o SubSeq(d, p + 1, Len(d))

\* The last call made, and the entries whose bucket holds its value.
LastCall == obs[Len(obs)]

Holding(d, value) == {k \in 1..Len(d) : InBucket(bk, d[k][1], value)}

\* C24: a call whose value lies in the bucket of an entry adds the
\* cardinality to that entry's count and changes nothing else: length,
\* ordinals, order and the other counts stay.  Any other call leaves the
\* entries there are as they were, in their order, and, when it returns,
\* has inserted exactly one entry, with the cardinality as its count.
C24_OnlyTheCountChanges ==
    [][Len(obs') = Len(obs) + 1
          => IF Holding(rv, LastCall'.value) # {}
             THEN /\ LastCall'.out = "return"
                  /\ Cardinality(Holding(rv, LastCall'.value)) = 1
                  /\ Len(rv') = Len(rv)
                  /\ \A k \in 1..Len(rv) :
                        /\ rv'[k][1] = rv[k][1]
                        /\ rv'[k][2] = rv[k][2]
                              + (IF k \in Holding(rv, LastCall'.value)
                                 THEN LastCall'.card ELSE 0)
             ELSE IF LastCall'.out = "return"
             THEN /\ Len(rv') = Len(rv) + 1
                  /\ \E p \in 1..Len(rv') :
                        /\ Without(rv', p) = rv
                        /\ rv'[p][2] = LastCall'.card
                        /\ InBucket(bk, rv'[p][1], LastCall'.value)
             ELSE rv' = rv]_vars

\* C24 witness: the third call fell into the bucket of the second of two
\* entries, whose count is now the sum of two cardinalities, while the
\* first entry kept its count.
C24_Witness ==
    /\ Len(obs) = 3
    /\ Len(rv) = 2
    /\ AllReturned
    /\ rv[1][2] = obs[2].card
    /\ rv[2][2] = obs[1].card + obs[3].card
    /\ obs[1].card # obs[3].card

ExpectedMin(i) ==
    IF i <= 9
    THEN i
    ELSE (10 + 5 * ((i - 10) % 18)) * Pow(10, (i - 10) \div 18)

ShadowSelf == [Self EXCEPT !.sa_value = shadow]

\* The field has a bucketizer and the call reaches it: the value is a
\* number and no field before it in the decomposition list has a bucketizer.
Meets(dp, i) ==
    /\ typeof(dp.value) = "number"
    /\ sa_decomps[i] \in DOMAIN sa_bucketizers
    /\ \A j \in 1..(i - 1) : sa_decomps[j] \notin DOMAIN sa_bucketizers

\* The field's value cannot be used as a number: it is absent, or a string
\* that does not parse.
Unusable(x) == x = Undefined \/ (x.t = "str" /\ parseFloat(x.s) = NaN)

\* The field's value, after the optional parse, is NaN or an infinity.
NotFinite(x) ==
    IF x.t = "str"
    THEN parseFloat(x.s).t \in {"nan", "inf", "ninf"}
    ELSE x.t \in {"nan", "inf", "ninf"}

\* C5: the result is the one the same calls give with the rejected records
\* left out.
C5_RejectedRecordsLeaveNoTrace == result(Self) = result(ShadowSelf)

\* C6: a call that meets a field with a bucketizer whose value is a
\* non-numeric string or undefined emits exactly one invalid_object event,
\* with the data point, the message naming the field and the 1-based
\* position of the record among all calls made, and adds one to
\* nerr_nonnumeric.
C6_InvalidObjectReported ==
    [][\A i \in 1..Len(sa_decomps) :
          (Meets(datapt', i)
              /\ Unusable(pluck(datapt'.fields, sa_decomps[i])))
          => /\ out' = "rejected"
             /\ nemitted' = nemitted + 1
             /\ event' = [datapt |-> datapt', field |-> sa_decomps[i],
                          message |-> "value for field \"" \o sa_decomps[i]
                                          \o "\" is not a number",
                          num |-> ncalls']
             /\ sa_nnonnumeric' = sa_nnonnumeric + 1]_vars

\* C6 witness: the third call is rejected for an absent util after an
\* earlier call was rejected too, a discrete field coming first.
C6_Witness ==
    /\ out = "rejected"
    /\ sa_decomps = <<"host", "util">>
    /\ datapt.fields["util"] = Undefined
    /\ event.num = 3
    /\ sa_nnonnumeric = 2

\* C7: a call that ends in an invalid_object rejection leaves the tree as
\* it was.
C7_RejectionLeavesTree == [][out' = "rejected" => sa_value' = sa_value]_vars

\* C8: a call that meets a field with a bucketizer whose value is not a
\* finite number ends in a rejection, and no value that is not a finite
\* number is handed to a bucketizer.
C8_NonFiniteRejected ==
    [][/\ \A i \in 1..Len(sa_decomps) :
            (Meets(datapt', i)
                /\ NotFinite(pluck(datapt'.fields, sa_decomps[i])))
            => out' = "rejected"
       /\ \A k \in 1..Len(handed') : handed'[k].t = "num"]_vars

\* C9: a call whose data point has no value, or a value that is not a
\* finite number, throws, emits no invalid_object and leaves the tree as it
\* was.
C9_BadValueThrows ==
    [][datapt'.value.t # "num"
          => /\ out' \in {"assert:843"}
             /\ nemitted' = nemitted
             /\ sa_value' = sa_value]_vars

\* C10: with no decomposition field, result() has exactly one element, the
\* sum of the values of the data points aggregated, and sa_value is a
\* number, not a tree; the six city records give 2137000.
C10_ScalarSum ==
    Len(sa_decomps) = 0
    => /\ sa_value.leaf
       /\ result(Self) = <<total>>
       /\ (FedCities /\ inorder /\ ncalls = Len(CityPoints))
             => result(Self) = <<Whole(2137000)>>

\* C10 witness: the six city records have been aggregated in list order.
C10_Witness ==
    /\ Len(sa_decomps) = 0
    /\ FedCities
    /\ inorder
    /\ ncalls = Len(CityPoints)
    /\ result(Self) = <<Whole(2137000)>>

\* The key tuples of the calls that returned, and the sum of datapt.value
\* over the calls that returned with the key tuple "keys".
Accepted == {j \in 1..Len(log) : log[j].out = "return"}

Tuples == {log[j].keys : j \in Accepted}

RECURSIVE SumFor(_, _)
SumFor(keys, j) ==
    IF j > Len(log)
    THEN Whole(0)
    ELSE Plus(IF log[j].out = "return" /\ log[j].keys = keys
              THEN log[j].value
              ELSE Whole(0),
              SumFor(keys, j + 1))

RowKeys(row) == SubSeq(row, 1, Len(row) - 1)

RowsMatchLog(rows) ==
    /\ Len(rows) = Cardinality(Tuples)
    /\ \A a \in 1..Len(rows) :
          /\ Len(rows[a]) = Len(sa_decomps) + 1
          /\ RowKeys(rows[a]) \in Tuples
          /\ rows[a][Len(rows[a])] = SumFor(RowKeys(rows[a]), 1)
    /\ \A a, b \in 1..Len(rows) :
          a # b => RowKeys(rows[a]) # RowKeys(rows[b])

\* C11: with at least one decomposition field, result() has exactly one row
\* per distinct key tuple of the records accepted, whatever their order;
\* each row has one key per field, in decomposition order, then the sum of
\* datapt.value over the accepted records with that key tuple.
C11_OneRowPerTuple ==
    (Len(sa_decomps) >= 1 /\ out # "hang") => RowsMatchLog(result(Self))

\* C11 witness: of three records broken down by host and util, one was
\* rejected and the other two share their key tuple: one row, with sum 2.
C11_Witness ==
    /\ Len(sa_decomps) = 2
    /\ Len(log) = 3
    /\ \E j \in 1..3 : log[j].out = "rejected"
    /\ Len(result(Self)) = 1
    /\ result(Self)[1][3] = Whole(2)

\* The first call whose descent walked the keys p, and the first field on
\* which two rows with different key tuples differ.
Walked(j, p) ==
    Len(log[j].keys) >= Len(p) /\ SubSeq(log[j].keys, 1, Len(p)) = p

FirstSeen(p) ==
    CHOOSE j \in 1..Len(log) :
        Walked(j, p) /\ \A m \in 1..(j - 1) : ~Walked(m, p)

FirstDiff(ra, rb) ==
    CHOOSE k \in 1..Len(sa_decomps) :
        ra[k] # rb[k] /\ \A m \in 1..(k - 1) : ra[m] = rb[m]

\* x < y on two numbers that are not NaN.
Less(x, y) ==
    CASE x.t = "ninf" -> y.t # "ninf"
      [] x.t = "num" -> y.t = "inf" \/ (y.t = "num" /\ x.n < y.n)
      [] OTHER -> FALSE

DiscreteInArrivalOrder(rows) ==
    \A a, b \in 1..Len(rows) :
        (a < b /\ sa_decomps[FirstDiff(rows[a], rows[b])]
                      \notin DOMAIN sa_bucketizers)
        => FirstSeen(SubSeq(rows[a], 1, FirstDiff(rows[a], rows[b])))
              < FirstSeen(SubSeq(rows[b], 1, FirstDiff(rows[a], rows[b])))

QuantizedAscending(rows) ==
    \A a, b \in 1..Len(rows) :
        (a < b /\ sa_decomps[FirstDiff(rows[a], rows[b])]
                      \in DOMAIN sa_bucketizers)
        => Less(rows[a][FirstDiff(rows[a], rows[b])],
                rows[b][FirstDiff(rows[a], rows[b])])

\* C12: of two rows that first differ on a field without bucketizer, the
\* one whose key appeared first in the calls made (under the same keys
\* before it) comes first.
C12_DiscreteFirstSeenOrder ==
    (Len(sa_decomps) >= 1 /\ out # "hang")
    => DiscreteInArrivalOrder(result(Self))

\* C13: of two rows that first differ on a field with a bucketizer, the one
\* with the smaller ordinal comes first.
C13_OrdinalsAscending ==
    (Len(sa_decomps) >= 1 /\ out # "hang")
    => QuantizedAscending(result(Self))

\* The call of aggregate on dp gets as far as field i of the decomposition
\* list: datapt.value is a number and no field before it was rejected.
Reached(dp, i) ==
    /\ typeof(dp.value) = "number"
    /\ \A j \in 1..(i - 1) :
          quantizeField(sa_bucketizers, sa_decomps[j],
                        pluck(dp.fields, sa_decomps[j])).out = "ok"

\* The fields with a bucketizer that the call on dp reaches with a string.
StringsMet(dp) ==
    {i \in 1..Len(sa_decomps) :
        /\ Reached(dp, i)
        /\ sa_decomps[i] \in DOMAIN sa_bucketizers
        /\ typeof(pluck(dp.fields, sa_decomps[i])) = "string"}

Rejections == Cardinality({j \in 1..Len(log) : log[j].out = "rejected"})

Stats == stats(Self)

\* C17: after every call, stats().ninputs is the number of calls made,
\* nerr_nonnumeric the number of calls rejected through invalid_object, and
\* nparsed has grown by the number of string values of fields with a
\* bucketizer the call met; no counter decreases.
C17_StatsCount ==
    [][/\ Stats'.ninputs = Len(log')
       /\ Stats'.nerr_nonnumeric = Rejections'
       /\ Stats'.nerr_nonnumeric = nemitted'
       /\ Stats'.nparsed = Stats.nparsed + Cardinality(StringsMet(datapt'))
       /\ Stats'.ninputs >= Stats.ninputs
       /\ Stats'.nerr_nonnumeric >= Stats.nerr_nonnumeric
       /\ Stats'.nparsed >= Stats.nparsed]_vars

\* C17 witness: of three calls one threw on datapt.value, one parsed a
\* string and was rejected, one parsed a string and returned.
C17_Witness ==
    /\ Stats = [ninputs |-> 3, nparsed |-> 2, nerr_nonnumeric |-> 1]
    /\ \E j \in 1..Len(log) : log[j].out = "assert:843"
    /\ \E j \in 1..Len(log) : log[j].out = "return"

\* The nodes of a tree, each named by the keys on the way to it, and the
\* node a path names.
RECURSIVE PathsFrom(_, _)
PathsFrom(o, prefix) ==
    {prefix}
    \cup UNION {PathsFrom(o.props[k].val, Append(prefix, o.props[k].key)) :
                   k \in 1..Len(o.props)}

Paths(o) == PathsFrom(o, <<>>)

RECURSIVE NodeAt(_, _)
NodeAt(o, path) ==
    IF path = <<>> THEN o ELSE NodeAt(GetProperty(o, Head(path)), Tail(path))

LeafPaths(o) == {path \in Paths(o) : NodeAt(o, path).leaf}

\* The path of property keys a key tuple of the log stands for.
KeyPath(keys) == [i \in 1..Len(keys) |-> ToPropertyKey(keys[i])]

LastLog == log[Len(log)]

\* The accumulator at a path, 0 where there is no node yet.
Accumulator(o, path) ==
    IF path \in Paths(o) THEN NodeAt(o, path).num ELSE Whole(0)

\* C25: a call of aggregate removes no node and turns no node into
\* another kind; it changes one accumulator, the one of the record's key
\* tuple, by datapt.value, when it returns, and none otherwise; it creates
\* no node when the key tuple was there already; and the leaves of a tree
\* are as many as the distinct key tuples of the accepted records.
C25_TreeOnlyGrows ==
    [][ncalls' = ncalls + 1
          => /\ Paths(sa_value) \subseteq Paths(sa_value')
             /\ \A path \in Paths(sa_value) :
                   NodeAt(sa_value', path).leaf = NodeAt(sa_value, path).leaf
             /\ \A path \in LeafPaths(sa_value') :
                   NodeAt(sa_value', path).num
                      = IF /\ LastLog'.out = "return"
                           /\ path = KeyPath(LastLog'.keys)
                        THEN Plus(Accumulator(sa_value, path), datapt'.value)
                        ELSE Accumulator(sa_value, path)
             /\ LastLog'.out # "return"
                   => LeafPaths(sa_value') = LeafPaths(sa_value)
             /\ (/\ Len(LastLog'.keys) = Len(sa_decomps)
                 /\ KeyPath(LastLog'.keys) \in Paths(sa_value))
                   => Paths(sa_value') = Paths(sa_value)
             /\ Len(sa_decomps) >= 1
                   => Cardinality(LeafPaths(sa_value'))
                         = Cardinality(Tuples')]_vars

\* The rows of result() and, when ordinals and sums are finite numbers,
\* the distribution they are.
Rows == result(Self)

FiniteRows(rows) ==
    \A k \in 1..Len(rows) : rows[k][1].t = "num" /\ rows[k][2].t = "num"

DistOf(rows) ==
    [k \in 1..Len(rows) |-> <<rows[k][1].n \div Denom, rows[k][2].n>>]

\* The number a field with a bucketizer is taken as.
AsNumber(x) == IF typeof(x) = "string" THEN parseFloat(x.s) ELSE x

\* The one decomposition field has a bucketizer.
OneHistogram ==
    Len(sa_decomps) = 1 /\ sa_decomps[1] \in DOMAIN sa_bucketizers

\* C26: with one decomposition field, which has a bucketizer, every record
\* accepted with a finite field value and a finite datapt.value takes the
\* rows of result() to the distribution that bucketize makes of them when
\* called with the field value and datapt.value.
C26_RowsAreTheDistribution ==
    [][(/\ OneHistogram
        /\ ncalls' = ncalls + 1
        /\ out' = "return"
        /\ FiniteRows(Rows)
        /\ AsNumber(datapt'.fields[sa_decomps[1]]).t = "num"
        /\ datapt'.value.t = "num")
          => /\ FiniteRows(Rows')
             /\ bucketize(sa_bucketizers[sa_decomps[1]], DistOf(Rows),
                          AsNumber(datapt'.fields[sa_decomps[1]]).n,
                          datapt'.value.n)
                   = [rv |-> DistOf(Rows'), out |-> "return"]]_vars

\* Row "row" of result() is the row of the record "dp": a number where the
\* field has a bucketizer, the very value of the record's field elsewhere.
TypedRowOf(row, dp) ==
    \A i \in 1..Len(sa_decomps) :
        IF sa_decomps[i] \in DOMAIN sa_bucketizers
        THEN typeof(row[i]) = "number"
        ELSE row[i] = pluck(dp.fields, sa_decomps[i])

\* C27: after a record was accepted, result() has a row for it in which
\* every field with a bucketizer is a number and every other field is the
\* value the record had, with its type (the number 1 is not the string "1").
C27_DiscreteKeepsItsType ==
    (Len(sa_decomps) >= 1 /\ out = "return")
        => \E k \in 1..Len(Rows) : TypedRowOf(Rows[k], datapt)

\* The record "dp" with the number its util string parses to in its place.
Parsed(dp) ==
    [dp EXCEPT !.fields["util"] = parseFloat(dp.fields["util"].s)]

\* The call made with "dp" reaches util, which has a bucketizer and is a
\* string that parses to a finite number >= 0.
NumericString(dp) ==
    /\ "util" \in DOMAIN sa_bucketizers
    /\ \E i \in 1..Len(sa_decomps) : sa_decomps[i] = "util"
    /\ typeof(dp.value) = "number"
    /\ typeof(dp.fields["util"]) = "string"
    /\ parseFloat(dp.fields["util"].s).t = "num"
    /\ parseFloat(dp.fields["util"].s).n >= 0

\* C28: a record whose util is a string that parses to a finite number
\* n >= 0 changes the tree exactly as the same record with util n would,
\* ends as that record would, and adds one to nparsed, which the record
\* with the number leaves alone.
C28_NumericStringLikeNumber ==
    [][(ncalls' = ncalls + 1 /\ NumericString(datapt'))
          => /\ sa_value' = aggregate(Self, Parsed(datapt')).sa_value
             /\ out' = aggregate(Self, Parsed(datapt')).out
             /\ sa_nparsed' = sa_nparsed + 1
             /\ aggregate(Self, Parsed(datapt')).sa_nparsed = sa_nparsed]_vars

\* C28 witness: util 3, "3" and "3px" were added to one leaf, with two
\* parses counted.
C28_Witness ==
    /\ sa_decomps = <<"util">>
    /\ ncalls = 3
    /\ sa_nparsed = 2
    /\ \E j \in 1..Len(log) : log[j].out = "return"
    /\ Len(Rows) = 1
    /\ Rows[1][2] = Whole(3)
    /\ typeof(datapt.fields["util"]) = "string"

\* The sum of the last column of the rows from row k on (with no
\* decomposition field, result() is [ sum ]), and the sum of datapt.value
\* over the calls from call j on that returned.
RECURSIVE LastColumnSum(_, _)
LastColumnSum(rows, k) ==
    IF k > Len(rows)
    THEN Whole(0)
    ELSE Plus(IF Len(sa_decomps) = 0
              THEN rows[k]
              ELSE rows[k][Len(rows[k])],
              LastColumnSum(rows, k + 1))

RECURSIVE AcceptedSum(_)
AcceptedSum(j) ==
    IF j > Len(log)
    THEN Whole(0)
    ELSE Plus(IF log[j].out = "return" THEN log[j].value ELSE Whole(0),
              AcceptedSum(j + 1))

\* The calls that neither returned nor rejected their record.
Thrown == {j \in 1..Len(log) : log[j].out \notin {"return", "rejected"}}

\* C29 as stated: the last column of result() sums to the sum of
\* datapt.value over the accepted records, and the accepted records are
\* ninputs - nerr_nonnumeric in number.
C29_ConservationOverInputs ==
    /\ LastColumnSum(Rows, 1) = AcceptedSum(1)
    /\ Cardinality(Accepted) = Stats.ninputs - Stats.nerr_nonnumeric

\* C29 amended: the last column of result() sums to the sum of
\* datapt.value over the records whose call returned; ninputs -
\* nerr_nonnumeric counts these and the calls that threw, so it is their
\* number when no call threw.
C29_ConservationOverReturned ==
    /\ LastColumnSum(Rows, 1) = AcceptedSum(1)
    /\ Cardinality(Accepted) + Cardinality(Thrown)
          = Stats.ninputs - Stats.nerr_nonnumeric

\* C29 witness: of three records broken down by host and util, one was
\* rejected, one threw on its value and one returned with value 2, which
\* is the sum.
C29_Witness ==
    /\ Len(sa_decomps) = 2
    /\ Len(log) = 3
    /\ Cardinality(Accepted) = 1
    /\ Cardinality(Thrown) = 1
    /\ Stats.nerr_nonnumeric = 1
    /\ LastColumnSum(Rows, 1) = Whole(2)

\* C25 witness: three records were accepted under two key tuples, so the
\* tree has two leaves, below one host.
C25_Witness ==
    /\ Len(sa_decomps) = 2
    /\ Cardinality(Accepted) = 3
    /\ Cardinality(LeafPaths(sa_value)) = 2
    /\ Len(sa_value.props) = 1

\* ------------------------------------------------------ claims on SpecCtor
\* args.decomps is a list of names or is left out; every value of
\* args.bucketizers, when it is given, is a bucketizer.
ValidDecomps(x) == x.t \in {"array", "undefined"}

ValidBucketizers(x) ==
    \/ x.t = "undefined"
    \/ /\ x.t = "object"
       /\ \A f \in DOMAIN x.map : x.map[f].kind \in BucketizerKinds

\* C18: the constructor returns only when args.decomps is a sequence and
\* every value of args.bucketizers is a bucketizer; otherwise it throws,
\* and no call of aggregate ends in an error of construction.
C18_ConstructorValidates ==
    /\ ctor_out = "ok" => /\ ValidDecomps(ctor_args.decomps)
                          /\ ValidBucketizers(ctor_args.bucketizers)
    /\ out # "TypeError:888"

\* base divides nbuckets, and nbuckets divides some power of base.
DividesAPower(base, nbuckets) ==
    /\ nbuckets % base = 0
    /\ \E k \in 1..MaxPower : Pow(base, k) % nbuckets = 0

\* C19: makeLogLinearBucketizer(base, nbuckets) returns when base divides
\* nbuckets and nbuckets divides some power of base, and throws in its
\* constructor for every other pair.
C19_LogLinearAccepts ==
    mk_out # "none"
    => IF DividesAPower(mk_base, mk_nbuckets)
       THEN mk_out = "ok"
       ELSE mk_out \in {"assert:1132", "assert:1137"}

\* ---------------------------------------------------- claims on SpecStream
\* s is an initial part of t.
IsPrefix(s, t) == Len(s) <= Len(t) /\ SubSeq(t, 1, Len(s)) = s

\* result() of an Aggregator built like this one that was given the data
\* points pts in order.
ResultOver(pts) ==
    result(aggregateEach(newAggregator(sa_decomps, sa_bucketizers),
                         pts, 1).self)

\* C14: the batch function returns the rows, in the order, that result()
\* gives once the Aggregator has ingested the same data points in list
\* order.
C14_BatchEqualsStepwise ==
    (batchrv # <<>> /\ ingested = written) => batchrv = <<result(Self)>>

\* C14 witness: three points, one of them rejected, went through both.
C14_Witness ==
    /\ batchrv # <<>>
    /\ Len(written) = 3
    /\ ingested = written
    /\ sa_nnonnumeric = 1
    /\ Len(sa_decomps) = 2
    /\ Len(batchrv[1]) = 2

\* What holds of the stream at all times: the records ingested are the
\* first records written, in write order; _flush runs at most once, after
\* end() and after the last record was ingested; what it pushed is one
\* item, result() over all the records written.
StreamSafe ==
    /\ IsPrefix(ingested, written)
    /\ Len(ingested) = sa_nrecords
    /\ nflush <= 1
    /\ nflush = 1 => (ws_ending /\ ingested = written)
    /\ rs_buffer \o items = IF nflush = 1
                            THEN <<ResultOver(written)>>
                            ELSE <<>>

\* C15: StreamSafe always holds, and once the producer has ended the stream
\* every record written gets ingested, _flush runs, and the listener
\* receives the one item.
C15_EndLeadsToOneItem ==
    /\ []StreamSafe
    /\ ws_ending ~> (/\ ingested = written
                     /\ nflush = 1
                     /\ items = <<ResultOver(written)>>)

\* C15 witness: three records were written, one of them rejected, and the
\* listener has received the item.
C15_Witness ==
    /\ Len(written) = 3
    /\ sa_nnonnumeric = 1
    /\ Len(items) = 1
    /\ nflush = 1

\* C16: result() called right after end() gives the rows the listener
\* later receives, and result() called at any point gives the sums over the
\* data points written so far.
C16_ResultCoversWrites ==
    /\ (atend # <<>> /\ items # <<>>) => atend = items
    /\ result(Self) = ResultOver(written)

\* ---------------------------------------------------- claims on SpecExpand
\* The ordinal the power-of-two bucketizer is to give the value v, which is
\* 0 or at least 1: 0 for 0, and k for 2^(k-1) <= v < 2^k.
P2Ordinal(v) ==
    IF v = 0
    THEN 0
    ELSE CHOOSE k \in 1..MaxOrd :
             Pow(2, k - 1) * Denom <= v /\ v < Pow(2, k) * Denom

\* The sum of the cardinalities of the calls made whose value is to get the
\* ordinal o.
RECURSIVE P2Count(_, _)
P2Count(o, j) ==
    IF j > Len(obs)
    THEN 0
    ELSE (IF P2Ordinal(obs[j].value) = o THEN obs[j].card ELSE 0)
         + P2Count(o, j + 1)

\* The integers 0 .. 31 have each been merged once, with cardinality 1.
FilledOnce ==
    /\ script \in {FillUp(1), FillDown(1)}
    /\ Len(obs) = FillCount

\* The bucket from min to max with its count, as ordinalToBounds shows it.
Bucket(min, max, count) ==
    <<<<Bound(min * Denom), Bound(max * Denom)>>, count>>

\* C21: with the power-of-two bucketizer every call returns and the value
\* is counted under ordinal 0 when it is 0 and under ordinal k when
\* 2^(k-1) <= value < 2^k (so 1 under ordinal 1); the integers 0 .. 31
\* merged once each, in either direction, give the ordinals 0 .. 5 with
\* counts 1, 1, 2, 4, 8, 16, which expand to the bounds [0,0], [1,1], [2,3],
\* [4,7], [8,15], [16,31].
C21_P2Ordinals ==
    bk = skP2Bucketizer
    => /\ \A j \in 1..Len(obs) :
             /\ obs[j].out = "return"
             /\ \E e \in 1..Len(rv) : rv[e][1] = P2Ordinal(obs[j].value)
       /\ \A e \in 1..Len(rv) : rv[e][2] = P2Count(rv[e][1], 1)
       /\ FilledOnce
             => /\ rv = <<<<0, 1>>, <<1, 1>>, <<2, 2>>, <<3, 4>>, <<4, 8>>,
                          <<5, 16>>>>
                /\ (expanded # <<>> /\ expanded[1].dist = rv)
                      => expanded[1].rv
                            = <<Bucket(0, 0, 1), Bucket(1, 1, 1),
                                Bucket(2, 3, 2), Bucket(4, 7, 4),
                                Bucket(8, 15, 8), Bucket(16, 31, 16)>>

\* C21 witness: the integers 31 down to 0 have been merged once each and
\* the six buckets expanded.
C21_Witness ==
    /\ bk = skP2Bucketizer
    /\ script = FillDown(1)
    /\ Len(obs) = FillCount
    /\ Len(rv) = 6
    /\ expanded # <<>>
    /\ expanded[1].dist = rv
    /\ expanded[1].rv[6] = Bucket(16, 31, 16)

\* e is the expansion of dist: entry for entry the same count, the
\* bucket's minimum, and the next bucket's minimum minus 1 when the bucket
\* is at least 1 wide.
ExpandsTo(b, dist, e) ==
    /\ Len(e) = Len(dist)
    /\ \A k \in 1..Len(dist) :
          /\ e[k][2] = dist[k][2]
          /\ e[k][1][1] = Bound(bucketMin(b, dist[k][1]))
          /\ bucketMin(b, dist[k][1] + 1) - bucketMin(b, dist[k][1]) >= Denom
                => e[k][1][2] = Bound(bucketMin(b, dist[k][1] + 1) - Denom)
          /\ (b = skLinearBucketizer(10 * Denom) /\ dist[k][1] = 39)
                => e[k] = Bucket(390, 399, dist[k][2])

\* C22: a call of ordinalToBounds returns the expansion of the distribution
\* it was given and leaves the distribution as it was.
C22_OrdinalToBounds ==
    [][expanded' # expanded
          => /\ expanded'[1].out = "return"
             /\ ExpandsTo(bk, rv, expanded'[1].rv)
             /\ rv' = rv]_vars

\* C22 witness: the sparse distribution of the linear test has been
\* expanded, ordinal 39 to [390, 399].
C22_Witness ==
    /\ bk = skLinearBucketizer(10 * Denom)
    /\ rv = <<<<39, 7>>, <<85, 14>>, <<1034, 17>>>>
    /\ expanded # <<>>
    /\ expanded[1].rv = <<Bucket(390, 399, 7), Bucket(850, 859, 14),
                           Bucket(10340, 10349, 17)>>

\* ---------------------------------------------------- claims on SpecPoints
\* The rows of result(): with no decomposition field, the one row made of
\* the sum.
LeafRows(self) ==
    IF Len(self.sa_decomps) = 0
    THEN <<result(self)>>
    ELSE result(self)

\* The data point the claim describes for a row of result(): for every
\* decomposition field the key of a discrete field or bucketMin(ordinal) of
\* a quantized one, and the row's sum as value.
PointFor(self, row) ==
    [fields |-> [f \in FieldNames |->
        IF \E i \in 1..Len(self.sa_decomps) : self.sa_decomps[i] = f
        THEN IF f \in DOMAIN self.sa_bucketizers
             THEN Num(bucketMin(self.sa_bucketizers[f],
                      row[CHOOSE i \in 1..Len(self.sa_decomps) :
                              self.sa_decomps[i] = f].n \div Denom))
             ELSE row[CHOOSE i \in 1..Len(self.sa_decomps) :
                          self.sa_decomps[i] = f]
        ELSE Undefined],
     value |-> row[Len(row)]]

ExpectedPoints(self) ==
    [k \in 1..Len(LeafRows(self)) |-> PointFor(self, LeafRows(self)[k])]

\* C23: with resultsAsPoints, _flush returns having pushed exactly one data
\* point per leaf and nothing else; each point has the discrete key or
\* bucketMin(ordinal) for every decomposition field and the leaf's sum as
\* its value.
C23_PointsPerLeaf ==
    (sa_aspoints /\ nflush = 1)
    => /\ flush_out = "return"
       /\ items \o rs_buffer = ExpectedPoints(Self)

\* C30: result() of the fresh Aggregator that was given the data points
\* emitted is result() of the Aggregator that emitted them.
C30_ReaggregationFixedPoint == refed # <<>> => refed = <<result(Self)>>

=============================================================================
